---- MODULE Spec2Model ----
(***************************************************************************)
(* A model of the HD-audio controller driver sound/pci/hda/hda_intel.c:    *)
(* the CORB/RIRB command transport with its timeout fallback, the          *)
(* single-command channel, the stream descriptor lists, the stream         *)
(* trigger and the interrupt-time position check.                          *)
(*                                                                         *)
(* Spec     : the command transport (azx_send_cmd, azx_get_response, the   *)
(*            RIRB interrupt, bus reset, codec probing).                   *)
(* SpecPcm  : the PCM callbacks that configure a stream (open, close,      *)
(*            hw_params, hw_free, prepare, pointer).                       *)
(* SpecRun  : two prepared streams that are triggered, with the DMA        *)
(*            engine, the wall clock, azx_interrupt and the deferred       *)
(*            worker azx_irq_pending_work.                                 *)
(* SpecRing : the command transport with spurious RIRB entries.            *)
(* SpecFatal: the command transport failing while two streams run.         *)
(* SpecLive : one playback stream under fair scheduling of the worker,     *)
(*            the wall clock and the trigger.                              *)
(* SpecOpen : azx_pcm_open and azx_pcm_close over three substreams per     *)
(*            direction competing for two descriptors.                     *)
(* SpecDown : azx_suspend, azx_halt and azx_free against running streams   *)
(*            and a command in flight.                                     *)
(* SpecPower: azx_power_notify and azx_halt over the command transport.    *)
(* SpecErr  : SpecLive's steps with a stream error interrupt.              *)
(* SpecRestart: one playback stream that is stopped, prepared and          *)
(*            started again while a completion is deferred.                *)
(* SpecBdl  : azx_setup_periods over a range of buffer geometries.         *)
(* SpecUp   : azx_init_chip statement by statement after azx_halt, with    *)
(*            the command transport and the interrupt handler.             *)
(* SpecProbe: azx_codec_create probing the codec addresses, with a         *)
(*            controller reset after each probe that fails.                *)
(* SpecSuspend: azx_suspend step by step against running streams.          *)
(* SpecSingle: the single-command channel and its bounded polls.           *)
(* SpecCycle: halt, power up and bus reset in ring and in single-command   *)
(*            mode.                                                        *)
(* SpecTag  : the stream tags on a controller with two streams for each    *)
(*            direction, with and without the X-Fi workaround.             *)
(* SpecRace : azx_interrupt and the worker between their lock operations,  *)
(*            beside stop, hw_free and close.                              *)
(* SpecPos  : azx_get_position in every mode of position_fix.              *)
(***************************************************************************)
EXTENDS Integers, Sequences, FiniteSets, TLC

(***************************************************************************)
(* Program constants.                                                      *)
(***************************************************************************)
ICH6_MAX_CORB_ENTRIES == 256
\* the bit of chip->driver_caps for the X-Fi workaround
AZX_DCAPS_CTX_WORKAROUND == 15
\* int timeout = 50 of azx_single_send_cmd and azx_single_wait_for_response
SINGLE_TIMEOUT == 50
AZX_DEFAULT_CODECS == 4
ICH6_MAX_RIRB_ENTRIES == 256
AZX_MAX_CODECS == 8
ICH6_RIRB_EX_UNSOL_EV == 16
\* the command's codec address sits in bits 28..31: cmd >> 28
CMD_ADDR_SHIFT == 268435456
\* the verb of probe_codec: (AC_NODE_ROOT << 20) | (AC_VERB_PARAMETERS << 8) | AC_PAR_VENDOR_ID
PROBE_VERB == 983040
\* -EIO
EIO == 5

(***************************************************************************)
(* Bounds of the model.                                                    *)
(***************************************************************************)
\* commands issued per run
MaxCmds == 2

\* the codec addresses the callers use, and the verb payloads
Addrs == {0, 1}
Payloads == {1}
Slots == 0..(ICH6_MAX_CORB_ENTRIES - 1)
CodecSlots == 0..(AZX_MAX_CODECS - 1)

\* The ring has already carried this many round trips of the command
\* MkCmd(0, 0) when the run starts: every slot 1..w of both rings holds
\* that command and its response, and all indices stand at w.
WarmStarts == {0, 255}

VARIABLES
  \* ---- controller registers
  CORBWP,        \* CORB write pointer register
  CORBRP,        \* CORB read pointer (advanced by the hardware)
  CORBCTL,       \* TRUE: CORB DMA running (ICH6_CORBCTL_RUN)
  RIRBWP,        \* RIRB write pointer register (advanced by the hardware)
  RIRBCTL,       \* TRUE: RIRB DMA and response irq enabled
  RIRBSTS,       \* TRUE: RIRB_INT_RESPONSE is raised
  GCTL,          \* [reset |-> CRST bit, unsol |-> ICH6_GCTL_UNSOL bit]
  IRS,           \* [busy |-> ICH6_IRS_BUSY, valid |-> ICH6_IRS_VALID]
  IC,            \* immediate command register
  polls,         \* history of the last single-command send: [busy, valid] the
                 \* reads of IRS its loops made, [hwfree, hwdone] the reads
                 \* at which the hardware was ready
  IR,            \* immediate response register
  \* ---- struct azx
  corb,          \* chip->corb: [buf]
  rirb,          \* chip->rirb: [buf, rp, wp, cmds, res], and the events forwarded
  last_cmd,      \* chip->last_cmd[]
  single_cmd,
  polling_mode,
  poll_count,
  msi,
  probing,
  create,        \* azx_codec_create: [stage, c] and the addresses that failed, tried
  initialized,
  codec_mask,    \* chip->codec_mask, a set of codec addresses
  STATESTS,      \* the codec addresses STATESTS shows after a controller reset
  bus,           \* [rirb_error, response_reset, in_reset, allow_bus_reset]
  \* ---- the codec-level caller (one at a time: bus->cmd_mutex)
  pc,            \* "idle" | "sent" | "loop" | "checked" | "ret"
  val,           \* the command of the current send/receive pair
  do_poll,       \* local of azx_rirb_get_response
  err,           \* result of the last azx_send_cmd
  ret,           \* result of the last azx_get_response
  \* ---- bookkeeping of the run
  rounds,        \* 1-second wait rounds timed out in the current receive
  entry,         \* polling_mode, poll_count and msi when the current receive began
  nsends,        \* azx_corb_send_cmd calls since azx_init_cmd_io
  ncmds          \* commands issued in this run

cmdVars == << CORBWP, CORBRP, CORBCTL, RIRBWP, RIRBCTL, RIRBSTS, GCTL, IRS, IC, IR,
              polls,
              corb, rirb, last_cmd, single_cmd, polling_mode, poll_count, msi,
              probing, create, initialized, codec_mask, STATESTS, bus,
              pc, val, do_poll, err, ret, rounds, entry, nsends, ncmds >>

(***************************************************************************)
(* Commands and responses.                                                 *)
(***************************************************************************)
MkCmd(a, p) == a * CMD_ADDR_SHIFT + p

azx_command_addr(cmd) ==
  LET addr == cmd \div CMD_ADDR_SHIFT
  IN IF addr >= AZX_MAX_CODECS THEN 0 ELSE addr

azx_response_addr(res_ex) ==
  LET addr == res_ex % 16
  IN IF addr >= AZX_MAX_CODECS THEN 0 ELSE addr

\* What the codec at the command's address answers: a value that names the
\* command (its payload and address), never 0 and never all-ones.
CodecReply(cmd) == 16 * ((cmd % CMD_ADDR_SHIFT) + 1) + (cmd \div CMD_ADDR_SHIFT)

\* (u32)-1, the error value of get_response
AllOnes == -1

(***************************************************************************)
(* PCM streams.  The controller has one capture stream (index 0) and one   *)
(* playback stream (index 1); position_fix is AUTO, LPIB, POSBUF or COMBO. *)
(***************************************************************************)
AZX_MAX_BDL_ENTRIES == 256
EINVAL == 22
EBUSY == 16
POS_FIX_AUTO == 0
POS_FIX_LPIB == 1
POS_FIX_POSBUF == 2
POS_FIX_VIACOMBO == 3
POS_FIX_COMBO == 4
SNDRV_PCM_STREAM_PLAYBACK == 0
SNDRV_PCM_STREAM_CAPTURE == 1
capture_streams == 1
playback_streams == 1
capture_index_offset == 0
playback_index_offset == capture_streams
num_streams == playback_streams + capture_streams

Streams == 0..(num_streams - 1)
Directions == {SNDRV_PCM_STREAM_PLAYBACK, SNDRV_PCM_STREAM_CAPTURE}

\* the direction a stream of the controller serves
StreamDir(i) ==
  IF i >= playback_index_offset /\ i < playback_index_offset + playback_streams
    THEN SNDRV_PCM_STREAM_PLAYBACK
    ELSE SNDRV_PCM_STREAM_CAPTURE

\* the key of the one substream of a direction (pcm device 0, number 0)
SubstreamKey(stream) == stream + 1

\* ---- 32-bit register values as two 16-bit halves
Half == 256 * 256
U32(n) == [hi |-> n \div Half, lo |-> n % Half]
U32Sub(a, b) ==
  LET lo == a.lo - b.lo
      borrow == IF lo < 0 THEN 1 ELSE 0
  IN [hi |-> (a.hi - b.hi - borrow) % Half, lo |-> lo % Half]
U32Add(a, b) ==
  LET lo == a.lo + b.lo
  IN [hi |-> (a.hi + b.hi + (lo \div Half)) % Half, lo |-> lo % Half]
U32Lt(a, b) == a.hi < b.hi \/ (a.hi = b.hi /\ a.lo < b.lo)
\* the ticks that pass with the n-th step of the wall clock
TickStep(n) == IF n % 2 = 1 THEN 512000 ELSE 170666

\* the ticks that passed in the first n steps of the wall clock
RECURSIVE TickSum(_)
TickSum(n) == IF n = 0 THEN 0 ELSE TickSum(n - 1) + TickStep(n)

\* unsigned pos >= n for a position that is a byte count or all ones
U32Ge(pos, n) == pos = AllOnes \/ pos >= n

\* ---- bounds and samples of the run
MaxOps == 3
MaxOpens == 5
MaxTagOps == 8
MaxTrigs == 3
MaxTicks == 4
MaxPeriods == 3
PAGE_SIZE == 4096
\* hw_params the PCM layer hands down: buffer and period in bytes, the rate,
\* bytes per frame, period wakeups, and how far the buffer is contiguous
Geometries ==
  { [buffer_bytes |-> 32768, period_bytes |-> 8192, rate |-> 48000, frame_bytes |-> 4,
     no_period_wakeup |-> FALSE, contig |-> 32768],
    [buffer_bytes |-> 32768, period_bytes |-> 8192, rate |-> 48000, frame_bytes |-> 4,
     no_period_wakeup |-> TRUE, contig |-> PAGE_SIZE],
    [buffer_bytes |-> 2097152, period_bytes |-> 65536, rate |-> 48000, frame_bytes |-> 4,
     no_period_wakeup |-> FALSE, contig |-> PAGE_SIZE] }
NoGeometry ==
  [buffer_bytes |-> 0, period_bytes |-> 0, rate |-> 0, frame_bytes |-> 0,
   no_period_wakeup |-> FALSE, contig |-> PAGE_SIZE]
ClockStarts == { U32(0), [hi |-> Half - 8, lo |-> 0] }
\* what a read of SD_LPIB and of the position buffer returns while the DMA
\* engine runs: the position, and 0, all ones or a value beyond the buffer
DmaReports ==
  { [lpib |-> 4000, posbuf |-> 4000], [lpib |-> 14000, posbuf |-> 14000],
    [lpib |-> 4000, posbuf |-> 0], [lpib |-> 14000, posbuf |-> AllOnes],
    [lpib |-> 4000, posbuf |-> 69536] }
PosAdjSettings == {0, 1, 32}
\* the buffers azx_setup_periods is given: up to MaxPeriods periods, with or
\* without a rest that is no whole period, in pieces smaller than, equal to
\* and larger than a period, at rates that scale the adjustment
BdlGeometries ==
  { [buffer_bytes |-> n * pb + rest, period_bytes |-> pb, rate |-> r, frame_bytes |-> 4,
     no_period_wakeup |-> w, contig |-> c] :
      n \in 1..MaxPeriods, pb \in {128, 4096, 8192}, rest \in {0, 64},
      r \in {8000, 48000, 96000}, w \in BOOLEAN, c \in {64, 4096, 32768} }
BdlPosAdj == {0, 1, 32, 64}
RunPosAdj == {0, 1}
PositionFixSettings == {POS_FIX_AUTO, POS_FIX_COMBO}

VARIABLES
  \* ---- stream registers and the DMA position buffer
  sd,            \* per stream: [run, inten, sts, err, tag, lvi, cbl, fmt, bdlp]
  INTCTL,        \* the bits set in INTCTL: stream indices (SIE), CIE and GIE
  SSYNC,         \* the stream synchronisation bits, a set of indices
  WALLCLK,       \* the 24 MHz wall clock counter
  DPLBASE,       \* [enable |-> ICH6_DPLBASE_ENABLE, base |-> the address is written]
  \* ---- struct azx and struct azx_dev
  azx_dev,       \* per stream: the fields of struct azx_dev
  position_fix,  \* chip->position_fix[2]
  bdl_pos_adj,   \* bdl_pos_adj[chip->dev_index]
  driver_caps,   \* chip->driver_caps, the AZX_DCAPS_ bits that matter here
  irq_pending_warned,
  workq,         \* TRUE: chip->irq_pending_work is queued or running
  \* ---- the PCM layer
  runtime,       \* per stream: the substream's runtime and its PCM state
  linked,        \* TRUE: the two substreams are linked into one group
  notify,        \* azx_interrupt and the worker: where each is in its loop
  trig,          \* the azx_pcm_trigger call in progress
  \* ---- bookkeeping of the run
  last,          \* the operation of the last step, with its result
  nops,          \* PCM calls made in this run
  nticks         \* clock steps made in this run

pcmVars == << sd, INTCTL, SSYNC, WALLCLK, DPLBASE, azx_dev, position_fix,
              bdl_pos_adj, driver_caps, irq_pending_warned, workq, runtime,
              linked, notify, trig, last, nops, nticks >>

vars == << cmdVars, pcmVars >>

(***************************************************************************)
(* azx_update_rirb: drain the responses the hardware has written.          *)
(***************************************************************************)
\* the mutation of RirbApply that applies a response without looking at the
\* pending counter
RirbApplyAlways(rb, rp) ==
  LET res_ex == rb.buf[rp].res_ex
      addr == azx_response_addr(res_ex)
  IN IF (res_ex \div ICH6_RIRB_EX_UNSOL_EV) % 2 = 1
       THEN [rb EXCEPT !.unsol = @ + 1]
       ELSE [rb EXCEPT !.res[addr] = rb.buf[rp].res, !.cmds[addr] = @ - 1]

\* one RIRB entry, lines 875-889
RirbApply(rb, rp) ==
  LET res_ex == rb.buf[rp].res_ex
      res == rb.buf[rp].res
      addr == azx_response_addr(res_ex)
  IN IF (res_ex \div ICH6_RIRB_EX_UNSOL_EV) % 2 = 1
       THEN [rb EXCEPT !.unsol = @ + 1]
       ELSE IF rb.cmds[addr] # 0
         THEN [rb EXCEPT !.res[addr] = res, !.cmds[addr] = @ - 1]
         ELSE rb

\* chip->rirb.rp++; chip->rirb.rp %= ICH6_MAX_RIRB_ENTRIES
RirbNextRp(rp) == (rp + 1) % ICH6_MAX_RIRB_ENTRIES

RECURSIVE RirbDrain(_, _)
RirbDrain(rb, wp) ==
  IF rb.rp = wp
    THEN rb
    ELSE LET rp1 == RirbNextRp(rb.rp)
         IN RirbDrain(RirbApply([rb EXCEPT !.rp = rp1], rp1), wp)

azx_update_rirb(rb, hwwp) ==
  IF hwwp = rb.wp THEN rb ELSE RirbDrain([rb EXCEPT !.wp = hwwp], hwwp)

(***************************************************************************)
(* azx_corb_send_cmd                                                       *)
(***************************************************************************)
CorbNextWpShort(wp) == (wp + 1) % (ICH6_MAX_CORB_ENTRIES - 1)

\* wp++; wp %= ICH6_MAX_CORB_ENTRIES
CorbNextWp(wp) == (wp + 1) % ICH6_MAX_CORB_ENTRIES

CorbCountNone(cmds, addr) == cmds

\* chip->rirb.cmds[addr]++
CorbCount(cmds, addr) == [cmds EXCEPT ![addr] = @ + 1]

azx_corb_send_cmd(v) ==
  LET addr == azx_command_addr(v)
      wp == CorbNextWp(CORBWP)
  IN /\ rirb' = [rirb EXCEPT !.cmds = CorbCount(rirb.cmds, addr)]
     /\ corb' = [corb EXCEPT !.buf[wp] = v]
     /\ CORBWP' = wp
     /\ nsends' = nsends + 1
     /\ err' = 0
     /\ UNCHANGED << IRS, IC, polls, IR, bus >>

(***************************************************************************)
(* azx_single_send_cmd with azx_single_wait_for_response.  hwfree: the     *)
(* read of IRS at which the hardware has dropped the busy bit; hwdone: the *)
(* read at which it has raised the valid bit.                              *)
(***************************************************************************)
\* the reads at which the hardware can be ready; 51 is past both loops
PollTimes == {1, 2, 50, 51}

\* a wait that goes on until the hardware is ready
PollLoopUnbounded(timeout, ready_at, n) == [ok |-> TRUE, polls |-> ready_at]

\* while (timeout--) { if (ready) return 0; udelay(1); } after n reads
RECURSIVE PollLoop(_, _, _)
PollLoop(timeout, ready_at, n) ==
  IF timeout = 0
    THEN [ok |-> FALSE, polls |-> n]
    ELSE IF ready_at <= n + 1
      THEN [ok |-> TRUE, polls |-> n + 1]
      ELSE PollLoop(timeout - 1, ready_at, n + 1)

azx_single_send_cmd_pending(v, hwfree, hwdone) ==
  LET addr == azx_command_addr(v)
  IN /\ bus' = [bus EXCEPT !.rirb_error = FALSE]
     /\ IC' = v
     /\ polls' = [busy |-> 1, valid |-> 1, hwfree |-> hwfree, hwdone |-> hwdone]
     /\ IRS' = [busy |-> FALSE, valid |-> TRUE]
     /\ IR' = CodecReply(v)
     /\ rirb' = [rirb EXCEPT !.res[addr] = CodecReply(v), !.cmds[addr] = @ + 1]
     /\ err' = 0
     /\ UNCHANGED << corb, CORBWP, nsends >>

azx_single_send_cmd(v, hwfree, hwdone) ==
  LET addr == azx_command_addr(v)
      free == PollLoop(SINGLE_TIMEOUT, IF IRS.busy THEN hwfree ELSE 1, 0)
      done == PollLoop(SINGLE_TIMEOUT, hwdone, 0)
  IN /\ bus' = [bus EXCEPT !.rirb_error = FALSE]
     /\ IF ~free.ok
          THEN /\ err' = -EIO
               /\ polls' = [busy |-> free.polls, valid |-> 0,
                             hwfree |-> hwfree, hwdone |-> hwdone]
               /\ UNCHANGED << IRS, IC, IR, rirb >>
          ELSE /\ IC' = v
               /\ polls' = [busy |-> free.polls, valid |-> done.polls,
                             hwfree |-> hwfree, hwdone |-> hwdone]
               /\ IF done.ok
                    THEN /\ IRS' = [busy |-> FALSE, valid |-> TRUE]
                         /\ IR' = CodecReply(v)
                         /\ rirb' = [rirb EXCEPT !.res[addr] = CodecReply(v)]
                         /\ err' = 0
                    ELSE /\ IRS' = [busy |-> TRUE, valid |-> FALSE]
                         /\ IR' = IR
                         /\ rirb' = [rirb EXCEPT !.res[addr] = AllOnes]
                         /\ err' = -EIO
     /\ UNCHANGED << corb, CORBWP, nsends >>

(***************************************************************************)
(* azx_send_cmd: record the command, then the transport of the mode.       *)
(***************************************************************************)
SendDispatch(v, hwfree, hwdone) ==
  /\ last_cmd' = [last_cmd EXCEPT ![azx_command_addr(v)] = v]
  /\ IF single_cmd
       THEN azx_single_send_cmd(v, hwfree, hwdone)
       ELSE azx_corb_send_cmd(v)

\* the codec layer issues a command (bus->ops.command under bus->cmd_mutex)
AzxSendCmd ==
  /\ pc = "idle"
  /\ ncmds < MaxCmds
  /\ \E a \in Addrs, p \in Payloads, hwfree \in PollTimes, hwdone \in PollTimes :
       /\ val' = MkCmd(a, p)
       /\ SendDispatch(MkCmd(a, p), hwfree, hwdone)
  /\ pc' = "sent"
  /\ ncmds' = ncmds + 1
  /\ UNCHANGED << CORBRP, CORBCTL, RIRBWP, RIRBCTL, RIRBSTS, GCTL, single_cmd,
                  polling_mode, poll_count, msi, probing, create, initialized,
                  codec_mask, STATESTS, do_poll, ret, rounds, entry >>
  /\ UNCHANGED pcmVars

\* probe_codec up to its azx_send_cmd: chip->probing = 1, then the probe verb
ProbeCodec ==
  /\ pc = "idle"
  /\ create.stage = "none"
  /\ ncmds < MaxCmds
  /\ ~bus.in_reset
  /\ probing' = TRUE
  /\ create' = create
  /\ \E a \in Addrs, hwfree \in PollTimes, hwdone \in PollTimes :
       /\ val' = MkCmd(a, PROBE_VERB)
       /\ SendDispatch(MkCmd(a, PROBE_VERB), hwfree, hwdone)
  /\ pc' = "sent"
  /\ ncmds' = ncmds + 1
  /\ UNCHANGED << CORBRP, CORBCTL, RIRBWP, RIRBCTL, RIRBSTS, GCTL, single_cmd,
                  polling_mode, poll_count, msi, initialized, codec_mask,
                  STATESTS, do_poll, ret, rounds, entry >>
  /\ UNCHANGED pcmVars

\* the locals of a finished send/receive pair
CallerLocals ==
  /\ val' = 0 /\ do_poll' = FALSE /\ err' = 0 /\ ret' = 0
  /\ rounds' = 0
  /\ entry' = [polling_mode |-> FALSE, poll_count |-> 0, msi |-> FALSE]

\* the codec layer wanted no response (a write verb): the pair ends here
ExecNoResponse ==
  /\ pc = "sent"
  /\ ~probing
  /\ pc' = "idle"
  /\ CallerLocals
  /\ UNCHANGED << CORBWP, CORBRP, CORBCTL, RIRBWP, RIRBCTL, RIRBSTS, GCTL, IRS,
                  IC, polls, IR, corb, rirb, last_cmd, single_cmd, polling_mode,
                  poll_count, msi, probing, create, initialized, codec_mask,
                  STATESTS, bus, nsends, ncmds >>
  /\ UNCHANGED pcmVars

(***************************************************************************)
(* azx_get_response: azx_single_get_response returns at once,              *)
(* azx_rirb_get_response enters its wait loop.                             *)
(***************************************************************************)
AzxGetResponse ==
  /\ pc = "sent"
  /\ IF single_cmd
       THEN /\ ret' = rirb.res[azx_command_addr(val)]
            /\ pc' = "ret"
            /\ UNCHANGED << do_poll, rounds, entry >>
       ELSE /\ do_poll' = FALSE
            /\ rounds' = 0
            /\ entry' = [polling_mode |-> polling_mode, poll_count |-> poll_count,
                         msi |-> msi]
            /\ pc' = "loop"
            /\ ret' = ret
  /\ UNCHANGED << CORBWP, CORBRP, CORBCTL, RIRBWP, RIRBCTL, RIRBSTS, GCTL, IRS,
                  IC, polls, IR, corb, rirb, last_cmd, single_cmd, polling_mode,
                  poll_count, msi, probing, create, initialized, codec_mask,
                  STATESTS, bus, val, err, nsends, ncmds >>
  /\ UNCHANGED pcmVars

\* one pass of the wait loop, lines 906-918: poll the ring when polling, then
\* return the stored response when nothing is pending for the address
RirbLoop ==
  /\ pc = "loop"
  /\ LET addr == azx_command_addr(val)
         rb == IF polling_mode \/ do_poll THEN azx_update_rirb(rirb, RIRBWP) ELSE rirb
     IN /\ rirb' = rb
        /\ IF rb.cmds[addr] = 0
             THEN /\ bus' = [bus EXCEPT !.rirb_error = FALSE]
                  /\ poll_count' = IF ~do_poll THEN 0 ELSE poll_count
                  /\ ret' = rb.res[addr]
                  /\ pc' = "ret"
             ELSE /\ pc' = "checked"
                  /\ UNCHANGED << bus, poll_count, ret >>
  /\ UNCHANGED << CORBWP, CORBRP, CORBCTL, RIRBWP, RIRBCTL, RIRBSTS, GCTL, IRS,
                  IC, polls, IR, corb, last_cmd, single_cmd, polling_mode, msi,
                  probing, create, initialized, codec_mask, STATESTS, val,
                  do_poll, err, rounds, entry, nsends, ncmds >>
  /\ UNCHANGED pcmVars

\* lines 919-926: the second has not elapsed, delay and loop
RirbDelay ==
  /\ pc = "checked"
  /\ pc' = "loop"
  /\ UNCHANGED << CORBWP, CORBRP, CORBCTL, RIRBWP, RIRBCTL, RIRBSTS, GCTL, IRS,
                  IC, polls, IR, corb, rirb, last_cmd, single_cmd, polling_mode,
                  poll_count, msi, probing, create, initialized, codec_mask,
                  STATESTS, bus, val, do_poll, err, ret, rounds, entry, nsends,
                  ncmds >>
  /\ UNCHANGED pcmVars

\* azx_free_cmd_io and the GCTL write of lines 985-987
RingRelease ==
  /\ RIRBCTL' = FALSE
  /\ CORBCTL' = FALSE
  /\ GCTL' = [GCTL EXCEPT !.unsol = FALSE]

\* a fallback that shuts the streams down with the ring
SingleCmdFallbackStop ==
  /\ single_cmd' = TRUE
  /\ RingRelease
  /\ sd' = [i \in DOMAIN sd |-> [sd[i] EXCEPT !.run = FALSE, !.inten = FALSE]]
  /\ INTCTL' = {}
  /\ azx_dev' = [i \in DOMAIN azx_dev |-> [azx_dev[i] EXCEPT !.running = FALSE]]

\* lines 981-988: the switch to single_cmd mode, which writes the ring
\* controls and GCTL and no stream register or stream field
SingleCmdFallback ==
  /\ single_cmd' = TRUE
  /\ RingRelease
  /\ UNCHANGED << sd, INTCTL, azx_dev >>

\* a receive that has no stage for the probing phase
NoProbeStage(p) == FALSE

\* line 962: if (chip->probing)
ProbeStage(p) == p

\* a receive that asks for a reset whenever the policy allows one
ResetAlways(b) == b.allow_bus_reset

\* line 974: a reset is allowed, none was asked for and none is running
ResetPermitted(b) == b.allow_bus_reset /\ ~b.response_reset /\ ~b.in_reset

NoPollLimit(n) == TRUE

\* chip->poll_count < 2
PollLimit(n) == n < 2

\* lines 919-989: the second elapsed with the response still pending.
\* irq_ok: azx_acquire_irq succeeds after MSI was disabled.
RirbTimeout ==
  /\ pc = "checked"
  /\ rounds' = rounds + 1
  /\ \E irq_ok \in BOOLEAN :
      IF ~polling_mode /\ PollLimit(poll_count)
        THEN /\ do_poll' = TRUE
             /\ poll_count' = poll_count + 1
             /\ pc' = "loop"
             /\ UNCHANGED << polling_mode, msi, bus, single_cmd, ret,
                             RIRBCTL, CORBCTL, GCTL,
                             sd, INTCTL, azx_dev >>
      ELSE IF ~polling_mode
        THEN /\ polling_mode' = TRUE
             /\ pc' = "loop"
             /\ UNCHANGED << do_poll, poll_count, msi, bus, single_cmd, ret,
                             RIRBCTL, CORBCTL, GCTL,
                             sd, INTCTL, azx_dev >>
      ELSE IF msi
        THEN /\ msi' = FALSE
             /\ IF irq_ok
                  THEN /\ pc' = "loop"
                       /\ UNCHANGED << bus, ret >>
                  ELSE /\ bus' = [bus EXCEPT !.rirb_error = TRUE]
                       /\ ret' = AllOnes
                       /\ pc' = "ret"
             /\ UNCHANGED << do_poll, poll_count, polling_mode, single_cmd,
                             RIRBCTL, CORBCTL, GCTL,
                             sd, INTCTL, azx_dev >>
      ELSE IF ProbeStage(probing)
        THEN /\ ret' = AllOnes
             /\ pc' = "ret"
             /\ UNCHANGED << do_poll, poll_count, polling_mode, msi, bus, single_cmd,
                             RIRBCTL, CORBCTL, GCTL,
                             sd, INTCTL, azx_dev >>
      ELSE IF ResetPermitted(bus)
        THEN /\ bus' = [bus EXCEPT !.rirb_error = TRUE, !.response_reset = TRUE]
             /\ ret' = AllOnes
             /\ pc' = "ret"
             /\ UNCHANGED << do_poll, poll_count, polling_mode, msi, single_cmd,
                             RIRBCTL, CORBCTL, GCTL,
                             sd, INTCTL, azx_dev >>
        ELSE /\ bus' = [bus EXCEPT !.rirb_error = TRUE, !.response_reset = FALSE]
             /\ SingleCmdFallback
             /\ ret' = AllOnes
             /\ pc' = "ret"
             /\ UNCHANGED << do_poll, poll_count, polling_mode, msi >>
  /\ UNCHANGED << CORBWP, CORBRP, RIRBWP, RIRBSTS, IRS, IC, polls, IR, corb,
                  rirb, last_cmd, probing, create, initialized, codec_mask,
                  STATESTS, val, err, entry, nsends, ncmds >>
  /\ UNCHANGED << SSYNC, WALLCLK, DPLBASE, position_fix, bdl_pos_adj,
                  driver_caps, irq_pending_warned, workq, runtime, linked,
                  notify, trig, last, nops, nticks >>

(***************************************************************************)
(* Chip bring-up and shut-down, on the registers and fields they write.    *)
(***************************************************************************)
Chip ==
  [initialized |-> initialized, single_cmd |-> single_cmd, GCTL |-> GCTL,
   CORBWP |-> CORBWP, CORBRP |-> CORBRP, CORBCTL |-> CORBCTL,
   RIRBWP |-> RIRBWP, RIRBCTL |-> RIRBCTL, RIRBSTS |-> RIRBSTS,
   IRS |-> IRS, rirb |-> rirb, nsends |-> nsends,
   codec_mask |-> codec_mask, STATESTS |-> STATESTS]

SetChip(c) ==
  /\ initialized' = c.initialized
  /\ single_cmd' = c.single_cmd
  /\ GCTL' = c.GCTL
  /\ CORBWP' = c.CORBWP
  /\ CORBRP' = c.CORBRP
  /\ CORBCTL' = c.CORBCTL
  /\ RIRBWP' = c.RIRBWP
  /\ RIRBCTL' = c.RIRBCTL
  /\ RIRBSTS' = c.RIRBSTS
  /\ IRS' = c.IRS
  /\ rirb' = c.rirb
  /\ nsends' = c.nsends
  /\ codec_mask' = c.codec_mask
  /\ STATESTS' = c.STATESTS

\* disable ringbuffer DMAs
azx_free_cmd_io(c) == [c EXCEPT !.RIRBCTL = FALSE, !.CORBCTL = FALSE]

\* clear rirb status (the stream and STATESTS bits are cleared with it)
azx_int_clear(c) == [c EXCEPT !.RIRBSTS = FALSE]

azx_init_cmd_io(c) ==
  [c EXCEPT !.CORBWP = 0, !.CORBRP = 0, !.CORBCTL = TRUE,
            !.rirb = [@ EXCEPT !.wp = 0, !.rp = 0,
                               !.cmds = [a \in CodecSlots |-> 0]],
            !.RIRBWP = 0, !.RIRBCTL = TRUE, !.nsends = 0]

\* lines 1137-1140: if (!chip->codec_mask) chip->codec_mask = STATESTS
Latch(mask, statests) == IF mask = {} THEN statests ELSE mask

\* a reset that accepts unsolicited responses in either mode
azx_reset_unsol(c, hwready) ==
  IF ~hwready
    THEN [c EXCEPT !.GCTL = [reset |-> FALSE, unsol |-> FALSE]]
    ELSE [c EXCEPT !.GCTL = [reset |-> TRUE, unsol |-> TRUE],
                   !.CORBWP = 0, !.CORBRP = 0, !.CORBCTL = FALSE,
                   !.RIRBWP = 0, !.RIRBCTL = FALSE, !.RIRBSTS = FALSE,
                   !.IRS = [busy |-> FALSE, valid |-> FALSE], !.nsends = 0,
                   !.codec_mask = Latch(@, c.STATESTS)]

\* azx_reset(chip, 1).  hwready: the controller leaves reset within the polls;
\* a completed controller reset puts the registers back to their defaults
\* (the CORB write pointer with them, so the count of sends starts again).
azx_reset(c, hwready) ==
  IF ~hwready
    THEN [c EXCEPT !.GCTL = [reset |-> FALSE, unsol |-> FALSE]]
    ELSE [c EXCEPT !.GCTL = [reset |-> TRUE, unsol |-> ~c.single_cmd],
                   !.CORBWP = 0, !.CORBRP = 0, !.CORBCTL = FALSE,
                   !.RIRBWP = 0, !.RIRBCTL = FALSE, !.RIRBSTS = FALSE,
                   !.IRS = [busy |-> FALSE, valid |-> FALSE], !.nsends = 0,
                   !.codec_mask = Latch(@, c.STATESTS)]

\* a bring-up that does not look at initialized
azx_init_chip_again(c, hwready) ==
  [azx_init_cmd_io(azx_int_clear(azx_reset(c, hwready))) EXCEPT !.initialized = TRUE]

azx_init_chip_ring(c, hwready) ==
  [azx_init_cmd_io(azx_int_clear(azx_reset([c EXCEPT !.single_cmd = FALSE], hwready)))
     EXCEPT !.initialized = TRUE]

azx_init_chip(c, hwready) ==
  IF c.initialized
    THEN c
    ELSE LET c1 == azx_int_clear(azx_reset(c, hwready))
             c2 == IF ~c1.single_cmd THEN azx_init_cmd_io(c1) ELSE c1
         IN [c2 EXCEPT !.initialized = TRUE]

azx_stop_chip(c) ==
  IF ~c.initialized
    THEN c
    ELSE [azx_free_cmd_io(azx_int_clear(c)) EXCEPT !.initialized = FALSE]

(***************************************************************************)
(* The pair returns to the codec layer.                                    *)
(***************************************************************************)
\* bus->ops.get_response returned; busclr: the codec layer clears
\* bus->response_reset once a command got its response again
ExecReturn ==
  /\ pc = "ret"
  /\ ~probing
  /\ pc' = "idle"
  /\ \E busclr \in BOOLEAN :
       bus' = IF busclr /\ ret # AllOnes
                THEN [bus EXCEPT !.response_reset = FALSE]
                ELSE bus
  /\ CallerLocals
  /\ UNCHANGED << CORBWP, CORBRP, CORBCTL, RIRBWP, RIRBCTL, RIRBSTS, GCTL, IRS,
                  IC, polls, IR, corb, rirb, last_cmd, single_cmd, polling_mode,
                  poll_count, msi, probing, create, initialized, codec_mask,
                  STATESTS, nsends, ncmds >>
  /\ UNCHANGED pcmVars

\* probe_codec after azx_get_response, and the reset azx_codec_create makes
\* when the probe failed (lines 1678-1681, 1756-1772)
ProbeReturn ==
  /\ pc = "ret"
  /\ probing
  /\ create.stage = "none"
  /\ probing' = FALSE
  /\ pc' = "idle"
  /\ \E hwready \in BOOLEAN :
       IF ret = AllOnes
         THEN SetChip(azx_init_chip(azx_stop_chip(
                        [Chip EXCEPT !.codec_mask = @ \ {azx_command_addr(val)}]),
                      hwready))
         ELSE SetChip(Chip)
  /\ CallerLocals
  /\ UNCHANGED << IC, polls, IR, corb, last_cmd, polling_mode, poll_count, msi,
                  create, bus, ncmds >>
  /\ UNCHANGED pcmVars

\* azx_bus_reset up to the codec suspend/resume it runs with in_reset set;
\* the codec layer calls it when azx_rirb_get_response asked for a reset
AzxBusReset ==
  /\ pc = "idle"
  /\ bus.response_reset /\ bus.rirb_error /\ ~bus.in_reset
  /\ bus' = [bus EXCEPT !.in_reset = TRUE]
  /\ \E hwready \in BOOLEAN :
       SetChip(azx_init_chip(azx_stop_chip(Chip), hwready))
  /\ UNCHANGED << IC, polls, IR, corb, last_cmd, polling_mode, poll_count, msi,
                  probing, create, pc, val, do_poll, err, ret, rounds, entry,
                  ncmds >>
  /\ UNCHANGED pcmVars

\* azx_bus_reset, line 1706
AzxBusResetEnd ==
  /\ pc = "idle"
  /\ bus.in_reset
  /\ bus' = [bus EXCEPT !.in_reset = FALSE]
  /\ UNCHANGED << CORBWP, CORBRP, CORBCTL, RIRBWP, RIRBCTL, RIRBSTS, GCTL, IRS,
                  IC, polls, IR, corb, rirb, last_cmd, single_cmd, polling_mode,
                  poll_count, msi, probing, create, initialized, codec_mask,
                  STATESTS, pc, val, do_poll, err, ret, rounds, entry, nsends,
                  ncmds >>
  /\ UNCHANGED pcmVars

(***************************************************************************)
(* azx_codec_create: probe every address of codec_mask, then create the    *)
(* codec instances.  create.c is the loop variable; create.failed and      *)
(* create.tried (history) are the addresses whose probe failed and the     *)
(* addresses snd_hda_codec_new was called for.                             *)
(***************************************************************************)
\* lines 1749-1751, for a driver type without an entry in azx_max_codecs
max_slots == AZX_DEFAULT_CODECS

\* a probe error that leaves codec_mask as it is
KeepBit(mask, c) == mask

\* line 1763: chip->codec_mask &= ~(1 << c)
ClearBit(mask, c) == mask \ {c}

\* lines 1754-1756: probe_codec(chip, c) up to its azx_send_cmd
ProbeSlot ==
  /\ pc = "idle"
  /\ create.stage = "probe" /\ create.c < max_slots /\ create.c \in codec_mask
  /\ probing' = TRUE
  /\ create' = create
  /\ \E hwfree \in PollTimes, hwdone \in PollTimes :
       /\ val' = MkCmd(create.c, PROBE_VERB)
       /\ SendDispatch(MkCmd(create.c, PROBE_VERB), hwfree, hwdone)
  /\ pc' = "sent"
  /\ UNCHANGED << CORBRP, CORBCTL, RIRBWP, RIRBCTL, RIRBSTS, GCTL, single_cmd,
                  polling_mode, poll_count, msi, initialized, codec_mask,
                  STATESTS, do_poll, ret, rounds, entry, ncmds >>
  /\ UNCHANGED pcmVars

\* lines 1754-1755: the address is not in codec_mask
ProbeSkip ==
  /\ pc = "idle"
  /\ create.stage = "probe" /\ create.c < max_slots /\ create.c \notin codec_mask
  /\ create' = [create EXCEPT !.c = @ + 1]
  /\ UNCHANGED << CORBWP, CORBRP, CORBCTL, RIRBWP, RIRBCTL, RIRBSTS, GCTL, IRS,
                  IC, polls, IR, corb, rirb, last_cmd, single_cmd, polling_mode,
                  poll_count, msi, probing, initialized, codec_mask, STATESTS,
                  bus, pc, val, do_poll, err, ret, rounds, entry, nsends, ncmds >>
  /\ UNCHANGED pcmVars

\* probe_codec returned: lines 1679-1683 and 1756-1763
ProbeResult ==
  /\ pc = "ret"
  /\ probing
  /\ create.stage = "probe"
  /\ probing' = FALSE
  /\ IF ret = AllOnes
       THEN /\ codec_mask' = ClearBit(codec_mask, create.c)
            /\ create' = [create EXCEPT !.failed = @ \cup {create.c}]
            /\ pc' = "probe_reset"
       ELSE /\ codec_mask' = codec_mask
            /\ create' = [create EXCEPT !.c = @ + 1]
            /\ pc' = "idle"
  /\ CallerLocals
  /\ UNCHANGED << CORBWP, CORBRP, CORBCTL, RIRBWP, RIRBCTL, RIRBSTS, GCTL, IRS,
                  IC, polls, IR, corb, rirb, last_cmd, single_cmd, polling_mode,
                  poll_count, msi, initialized, STATESTS, bus, nsends, ncmds >>
  /\ UNCHANGED pcmVars

\* lines 1771-1772: azx_stop_chip, azx_init_chip(chip, 1); the loop goes on
ProbeReset ==
  /\ pc = "probe_reset"
  /\ pc' = "idle"
  /\ create' = [create EXCEPT !.c = @ + 1]
  /\ \E hwready \in BOOLEAN :
       SetChip(azx_init_chip(azx_stop_chip(Chip), hwready))
  /\ UNCHANGED << IC, polls, IR, corb, last_cmd, polling_mode, poll_count, msi,
                  probing, bus, val, do_poll, err, ret, rounds, entry, ncmds >>
  /\ UNCHANGED pcmVars

\* lines 1787-1797: snd_hda_codec_new for every address of codec_mask
CodecNew ==
  /\ pc = "idle"
  /\ create.stage = "probe" /\ create.c = max_slots
  /\ create' = [create EXCEPT !.stage = "done", !.tried = codec_mask]
  /\ UNCHANGED << CORBWP, CORBRP, CORBCTL, RIRBWP, RIRBCTL, RIRBSTS, GCTL, IRS,
                  IC, polls, IR, corb, rirb, last_cmd, single_cmd, polling_mode,
                  poll_count, msi, probing, initialized, codec_mask, STATESTS,
                  bus, pc, val, do_poll, err, ret, rounds, entry, nsends, ncmds >>
  /\ UNCHANGED pcmVars

(***************************************************************************)
(* Stream registers.                                                       *)
(***************************************************************************)
\* the register lock is held by the trigger between its lock and unlock
RegLocked == trig.pc \in {"sync", "streams", "unsync"}

\* the two contexts that report periods, and each one's place: "idle", or
\* "call" (reg_lock dropped before snd_pcm_period_elapsed for stream dev),
\* or "relock" (the call made, reg_lock not taken again); status: INTSTS as
\* azx_interrupt read it; pending: the worker's count; read (history): the
\* azx_dev->substream the last call was made with
Handlers == {"irq", "work"}
NotifyIdle ==
  [h \in Handlers |-> [pc |-> "idle", dev |-> 0, status |-> {}, pending |-> 0,
                       read |-> 0]]

\* the controller and the global interrupt enable of INTCTL, as bit numbers
\* (0x40000000 and 0x80000000)
ICH6_INT_CTRL_EN == 30
ICH6_INT_GLOBAL_EN == 31

\* enable controller CIE and GIE
azx_int_enable(intctl) == intctl \cup {ICH6_INT_CTRL_EN, ICH6_INT_GLOBAL_EN}

\* the stream's bit in INTSTS; sts: SD_INT_COMPLETE, err: SD_INT_FIFO_ERR or
\* SD_INT_DESC_ERR of SD_STS
IntSts(i) == (sd[i].sts \/ sd[i].err) /\ sd[i].inten /\ i \in INTCTL

\* azx_stream_clear: stop DMA
azx_stream_clear(r) ==
  [r EXCEPT !.run = FALSE, !.inten = FALSE, !.sts = FALSE, !.err = FALSE]

\* azx_stream_start, the SD_CTL write
azx_stream_start(r) == [r EXCEPT !.run = TRUE, !.inten = TRUE]

(***************************************************************************)
(* Buffer descriptor list.                                                 *)
(***************************************************************************)
Min(a, b) == IF a < b THEN a ELSE b

\* the bytes from ofs that are contiguous in the buffer, at most size
snd_pcm_sgbuf_get_chunk_size(rt, ofs, size) ==
  Min(size, rt.contig - (ofs % rt.contig))

\* an entry that raises the interrupt wherever its chunk ends
IocEveryChunk(rest, with_ioc) == with_ioc

\* line 1515: bdl[3] = (size || !with_ioc) ? 0 : 0x01, size being the rest
Ioc(rest, with_ioc) == ~(rest # 0 \/ ~with_ioc)

\* st: [bdl, frags, ofs]; the result's ofs is -EINVAL when the list is full.
\* The loop of setup_bdle makes one entry for each contiguous piece of
\* [ofs, ofs + size): entry k begins at From(k) and is as long as the chunk
\* there; it stops at the entry that would be the 257th.
setup_bdle(rt, st, size, with_ioc) ==
  IF size <= 0
    THEN st
    ELSE LET first == st.ofs \div rt.contig
             pieces == ((st.ofs + size - 1) \div rt.contig) - first + 1
             room == AZX_MAX_BDL_ENTRIES - st.frags
             From(k) == IF k = 1 THEN st.ofs ELSE (first + k - 1) * rt.contig
             bdle(k) ==
               LET chunk == snd_pcm_sgbuf_get_chunk_size(rt, From(k),
                                                         st.ofs + size - From(k))
                   rest == st.ofs + size - From(k) - chunk
               IN [addr |-> From(k), size |-> chunk,
                   ioc |-> Ioc(rest, with_ioc)]
         IN [bdl |-> st.bdl \o [k \in 1..Min(pieces, room) |-> bdle(k)],
             frags |-> st.frags + Min(pieces, room),
             ofs |-> IF pieces > room THEN -EINVAL ELSE st.ofs + size]

\* the mutation of PosAdjBytes that adjusts by nothing
PosAdjBytesNone(rt, pos_align) == 0

\* the position adjustment of azx_setup_periods in bytes, before its limit
PosAdjBytes(rt, pos_align) ==
  LET adj == (pos_align * rt.rate + 47999) \div 48000
      frames == IF adj = 0
                  THEN pos_align
                  ELSE ((adj + pos_align - 1) \div pos_align) * pos_align
  IN frames * rt.frame_bytes

\* a last period that is not shortened by the adjustment
LastPeriodWhole(period_bytes, pos_adj) == period_bytes

\* line 1573: period_bytes - pos_adj
LastPeriod(period_bytes, pos_adj) == period_bytes - pos_adj

\* the loop over the periods, lines 1570-1580
RECURSIVE PeriodLoop(_, _, _, _, _, _)
PeriodLoop(rt, st, i, periods, period_bytes, pos_adj) ==
  IF i >= periods \/ st.ofs < 0
    THEN st
    ELSE PeriodLoop(rt,
                    IF i = periods - 1 /\ pos_adj # 0
                      THEN setup_bdle(rt, st, LastPeriod(period_bytes, pos_adj), FALSE)
                      ELSE setup_bdle(rt, st, period_bytes, ~rt.no_period_wakeup),
                    i + 1, periods, period_bytes, pos_adj)

\* azx_setup_periods on the stream's fields: [dev, err]
azx_setup_periods(dev, rt, adj) ==
  LET period_bytes == dev.period_bytes
      periods == dev.bufsize \div period_bytes
      st0 == [bdl |-> << >>, frags |-> 0, ofs |-> 0]
      bytes == IF adj > 0 THEN PosAdjBytes(rt, adj) ELSE 0
      pos_adj == IF bytes >= period_bytes THEN 0 ELSE bytes
      st1 == IF pos_adj > 0
               THEN setup_bdle(rt, st0, pos_adj, ~rt.no_period_wakeup)
               ELSE st0
      st2 == PeriodLoop(rt, st1, 0, periods, period_bytes, pos_adj)
  IN [dev |-> [dev EXCEPT !.bdl = st2.bdl, !.frags = st2.frags],
      err |-> IF st2.ofs < 0 THEN -EINVAL ELSE 0]

\* snd_hda_calc_stream_format: 0 for a rate that has no format value
snd_hda_calc_stream_format(rt) == IF rt.rate = 48000 THEN 17 ELSE 0

\* azx_dev->period_wallclk of azx_pcm_prepare (24 MHz wall clock)
PeriodWallclk(rt) ==
  (((rt.period_bytes \div rt.frame_bytes) * 24000) \div rt.rate) * 1000

\* azx_setup_controller on the stream's registers
azx_setup_controller(r, dev) ==
  [azx_stream_clear(r) EXCEPT !.tag = dev.stream_tag, !.cbl = dev.bufsize,
                              !.fmt = dev.format_val, !.lvi = dev.frags - 1,
                              !.bdlp = TRUE, !.inten = TRUE]

(***************************************************************************)
(* Position of the DMA and the check of a period interrupt.                *)
(***************************************************************************)
\* the mutation of AutoCheck that evaluates the mode again on every read
AutoCheckAlways(with_check, mode) == with_check /\ mode # POS_FIX_LPIB

\* line 2257
AutoCheck(with_check, mode) == with_check /\ mode = POS_FIX_AUTO

\* a position that is returned as it was read
ClampPosNone(pos, bufsize) == pos

\* lines 2270-2271
ClampPos(pos, bufsize) == IF U32Ge(pos, bufsize) THEN 0 ELSE pos

\* lines 2246-2268 without the VIACOMBO case: the position read and the
\* position_fix left, [pos, fix]
RawPosition(fix, stream, pb, lpib, with_check) ==
  IF fix[stream] = POS_FIX_LPIB
    THEN [pos |-> lpib, fix |-> fix]
    ELSE IF AutoCheck(with_check, fix[stream])
      THEN IF pb = 0 \/ pb = AllOnes
             THEN [pos |-> lpib,
                   fix |-> [fix EXCEPT ![stream] = POS_FIX_LPIB]]
             ELSE [pos |-> pb,
                   fix |-> [fix EXCEPT ![stream] = POS_FIX_POSBUF]]
      ELSE [pos |-> pb, fix |-> fix]

\* azx_get_position: [pos, fix], fix the position_fix it leaves
azx_get_position(fix, stream, bufsize, pb, lpib, with_check) ==
  LET r == RawPosition(fix, stream, pb, lpib, with_check)
  IN [r EXCEPT !.pos = ClampPos(@, bufsize)]

\* azx_via_get_position: [pos, insufficient]; link_pos: SD_LPIB, pb: the
\* position buffer entry, fifo_size: the word read at the FIFO size offset.
\* The readings are such that no step leaves the 32 bits.
azx_via_get_position(dev, stream, pb, link_pos, fifo_size) ==
  IF stream = SNDRV_PCM_STREAM_PLAYBACK
    THEN [pos |-> link_pos, insufficient |-> dev.insufficient]
    ELSE IF dev.insufficient /\ link_pos <= fifo_size
      THEN [pos |-> 0, insufficient |-> TRUE]
      ELSE LET mod_dma_pos == pb % dev.period_bytes
               mini_pos == IF link_pos <= fifo_size
                             THEN dev.bufsize + link_pos - fifo_size
                             ELSE link_pos - fifo_size
               mod_mini_pos == mini_pos % dev.period_bytes
               mod_link_pos == link_pos % dev.period_bytes
               next == mini_pos - mod_mini_pos + dev.period_bytes
               bound_pos == IF mod_link_pos >= fifo_size
                              THEN link_pos - mod_link_pos
                              ELSE IF mod_dma_pos >= mod_mini_pos
                                THEN mini_pos - mod_mini_pos
                                ELSE IF next >= dev.bufsize THEN 0 ELSE next
           IN [pos |-> bound_pos + mod_dma_pos, insufficient |-> FALSE]

\* azx_get_position with the VIACOMBO case:
\* [pos, fix, insufficient, raw], raw (history) the position before line 2270
GetPosition(fix, stream, dev, pb, lpib, fifo_size, with_check) ==
  IF fix[stream] = POS_FIX_VIACOMBO
    THEN LET v == azx_via_get_position(dev, stream, pb, lpib, fifo_size)
         IN [pos |-> ClampPos(v.pos, dev.bufsize), fix |-> fix,
             insufficient |-> v.insufficient, raw |-> v.pos]
    ELSE LET r == RawPosition(fix, stream, pb, lpib, with_check)
         IN [pos |-> azx_get_position(fix, stream, dev.bufsize, pb, lpib,
                                      with_check).pos,
             fix |-> r.fix, insufficient |-> dev.insufficient, raw |-> r.pos]

\* the mutation of TooEarly that takes half a period for the limit
TooEarlyHalf(wallclk, period_wallclk) == U32Lt(wallclk, U32(period_wallclk \div 2))

\* line 2300
TooEarly(wallclk, period_wallclk) == U32Lt(wallclk, U32((period_wallclk * 2) \div 3))

\* an accept that leaves the baseline where it was
KeepBaseline(start_wallclk, wallclk) == start_wallclk

\* line 2313
AdvanceBaseline(start_wallclk, wallclk) == U32Add(start_wallclk, wallclk)

\* a verdict that accepts before the boundary when an adjustment is set
BeforeBoundaryAccept(adj) == IF adj # 0 THEN 1 ELSE 0

\* line 2312: return bdl_pos_adj[chip->dev_index] ? 0 : -1
BeforeBoundary(adj) == IF adj # 0 THEN 0 ELSE -1

\* azx_position_ok on the streams' fields: [ok, devs, fix, pos]; rd: what the
\* reads of SD_LPIB and of the position buffer return
azx_position_ok(devs, fix, i, rd) ==
  LET dev == devs[i]
      wallclk == U32Sub(WALLCLK, dev.start_wallclk)
  IN IF TooEarly(wallclk, dev.period_wallclk)
       THEN [ok |-> -1, devs |-> devs, fix |-> fix, pos |-> 0]
       ELSE LET g == azx_get_position(fix, StreamDir(i), dev.bufsize,
                                      rd.posbuf, rd.lpib, TRUE)
            IN IF dev.period_bytes = 0
                 THEN [ok |-> -1, devs |-> devs, fix |-> g.fix, pos |-> g.pos]
                 ELSE IF /\ U32Lt(wallclk, U32((dev.period_wallclk * 5) \div 4))
                         /\ g.pos % dev.period_bytes > dev.period_bytes \div 2
                   THEN [ok |-> BeforeBoundary(bdl_pos_adj),
                         devs |-> devs, fix |-> g.fix, pos |-> g.pos]
                   ELSE [ok |-> 1,
                         devs |-> [devs EXCEPT ![i].start_wallclk =
                                                 AdvanceBaseline(@, wallclk),
                                               ![i].base = TickSum(nticks)],
                         fix |-> g.fix, pos |-> g.pos]

\* what a step leaves in last
Op(name, i, res) ==
  [op |-> name, dev |-> i, ret |-> res, evaluated |-> {},
   ok |-> [k \in Streams |-> 0], notified |-> {},
   held |-> {}, lock |-> TRUE,
   posbuf |-> [k \in Streams |-> 0],
   pos |-> [k \in Streams |-> 0],
   fix |-> [d \in Directions |-> POS_FIX_AUTO]]

\* a step no property asks about
NoOp == Op("none", -1, 0)

\* snd_pcm_period_elapsed called with reg_lock as the loop holds it
PeriodElapsedLocked(st, i) ==
  [st EXCEPT !.notified = @ \cup {i},
             !.held = IF st.lock THEN @ \cup {i} ELSE @]

\* lines 1454-1456 and 2345-2347: spin_unlock, snd_pcm_period_elapsed,
\* spin_lock.  st.lock: the loop holds reg_lock; st.held (history): the
\* streams whose period was reported with reg_lock held
PeriodElapsedUnlocked(st, i) ==
  LET unlocked == [st EXCEPT !.lock = FALSE]
      reported == [unlocked EXCEPT !.notified = @ \cup {i},
                                   !.held = IF unlocked.lock THEN @ \cup {i} ELSE @]
  IN [reported EXCEPT !.lock = TRUE]

\* a handler that does not look at the completion bit
SkipIdle(dev, complete) == dev.substream = 0 \/ ~dev.running

\* lines 1447-1449; complete: SD_INT_COMPLETE of the status read
SkipStream(dev, complete) == dev.substream = 0 \/ ~dev.running \/ ~complete

\* a handler that defers every completion it did not accept
DeferrableRejected(ok) == ok <= 0

\* line 1457: ok == 0 (chip->bus and its workq exist once streams can run)
Deferrable(ok) == ok = 0

\* the loop over the streams of azx_interrupt, lines 1442-1464, from stream i
\* on; st: [devs, fix, sd, workq, evaluated, ok, notified]
RECURSIVE IrqStreams(_, _, _)
IrqStreams(st, i, rd) ==
  IF i >= num_streams
    THEN st
    ELSE IF ~IntSts(i)
      THEN IrqStreams(st, i + 1, rd)
      ELSE LET st1 == [st EXCEPT !.sd[i].sts = FALSE, !.sd[i].err = FALSE]
           IN IF SkipStream(st.devs[i], sd[i].sts)
                THEN IrqStreams(st1, i + 1, rd)
                ELSE LET p == azx_position_ok(st.devs, st.fix, i, rd[i])
                         st2 == [st1 EXCEPT !.fix = p.fix, !.evaluated = @ \cup {i},
                                            !.ok[i] = p.ok, !.pos[i] = p.pos]
                     IN IrqStreams(
                          IF p.ok = 1
                            THEN PeriodElapsedUnlocked(
                                   [st2 EXCEPT !.devs = [p.devs EXCEPT ![i].irq_pending = FALSE,
                                                                 ![i].notified = @ + 1,
                                                                 ![i].notified_at = WALLCLK,
                                                                 ![i].restarted = FALSE]],
                                   i)
                            ELSE IF Deferrable(p.ok)
                              THEN [st2 EXCEPT !.devs[i].irq_pending = TRUE,
                                               !.workq = TRUE]
                              ELSE st2,
                          i + 1, rd)

\* one pass of the loop of azx_irq_pending_work, lines 2336-2352, from
\* stream i on; st: [devs, fix, pending, evaluated, ok, notified]
RECURSIVE WorkStreams(_, _, _)
WorkStreams(st, i, rd) ==
  IF i >= num_streams
    THEN st
    ELSE IF ~st.devs[i].irq_pending \/ st.devs[i].substream = 0 \/ ~st.devs[i].running
      THEN WorkStreams(st, i + 1, rd)
      ELSE LET p == azx_position_ok(st.devs, st.fix, i, rd[i])
               st2 == [st EXCEPT !.fix = p.fix, !.evaluated = @ \cup {i}, !.ok[i] = p.ok,
                                 !.pos[i] = p.pos]
           IN WorkStreams(
                IF p.ok > 0
                  THEN PeriodElapsedUnlocked(
                         [st2 EXCEPT !.devs = [p.devs EXCEPT ![i].irq_pending = FALSE,
                                                             ![i].notified = @ + 1,
                                                             ![i].notified_at = WALLCLK,
                                                             ![i].restarted = FALSE]],
                         i)
                  ELSE IF p.ok < 0
                    THEN [st2 EXCEPT !.pending = 0]
                    ELSE [st2 EXCEPT !.pending = @ + 1],
                i + 1, rd)

(***************************************************************************)
(* azx_interrupt: the streams, then the RIRB (lines 1426-1485).            *)
(***************************************************************************)
AzxInterrupt ==
  /\ ~RegLocked
  /\ ~(~RIRBSTS /\ \A i \in Streams : ~IntSts(i))
  /\ \E rd \in [{i \in Streams : IntSts(i) /\ azx_dev[i].running} -> DmaReports] :
       LET st == IrqStreams([devs |-> azx_dev, fix |-> position_fix, sd |-> sd,
                             workq |-> workq, evaluated |-> {},
                             ok |-> [i \in Streams |-> 0], notified |-> {},
                             pos |-> [i \in Streams |-> 0],
                             held |-> {}, lock |-> TRUE], 0, rd)
       IN /\ azx_dev' = st.devs
          /\ position_fix' = st.fix
          /\ sd' = st.sd
          /\ workq' = st.workq
          /\ last' = [op |-> "irq", dev |-> -1, ret |-> 0, evaluated |-> st.evaluated,
                      ok |-> st.ok, notified |-> st.notified,
                      held |-> st.held, lock |-> st.lock,
                      posbuf |-> [i \in Streams |->
                                    IF i \in st.evaluated THEN rd[i].posbuf ELSE 0],
                      pos |-> st.pos,
                      fix |-> position_fix]
  /\ rirb' = IF RIRBSTS THEN azx_update_rirb(rirb, RIRBWP) ELSE rirb
  /\ RIRBSTS' = FALSE
  /\ UNCHANGED << CORBWP, CORBRP, CORBCTL, RIRBWP, RIRBCTL, GCTL, IRS, IC, polls,
                  IR, corb, last_cmd, single_cmd, polling_mode, poll_count, msi,
                  probing, create, initialized, codec_mask, STATESTS, bus, pc,
                  val, do_poll, err, ret, rounds, entry, nsends, ncmds >>
  /\ UNCHANGED << INTCTL, SSYNC, WALLCLK, DPLBASE, bdl_pos_adj, driver_caps,
                  irq_pending_warned, runtime, linked, notify, trig, nops,
                  nticks >>

(***************************************************************************)
(* The controller hardware.                                                *)
(***************************************************************************)
HwPush(e) ==
  LET wp == (RIRBWP + 1) % ICH6_MAX_RIRB_ENTRIES
  IN /\ RIRBWP' = wp
     /\ rirb' = [rirb EXCEPT !.buf[wp] = e]
     /\ RIRBSTS' = TRUE

\* the link carries the next CORB command to its codec and the codec's
\* response comes back into the RIRB
HwRespond ==
  /\ GCTL.reset /\ CORBCTL /\ RIRBCTL
  /\ CORBRP # CORBWP
  /\ LET rp == (CORBRP + 1) % ICH6_MAX_CORB_ENTRIES
         cmd == corb.buf[rp]
     IN /\ CORBRP' = rp
        /\ HwPush([res |-> CodecReply(cmd), res_ex |-> cmd \div CMD_ADDR_SHIFT])
  /\ UNCHANGED << CORBWP, CORBCTL, RIRBCTL, GCTL, IRS, IC, polls, IR, corb,
                  last_cmd, single_cmd, polling_mode, poll_count, msi, probing,
                  create, initialized, codec_mask, STATESTS, bus, pc, val,
                  do_poll, err, ret, rounds, entry, nsends, ncmds >>
  /\ UNCHANGED pcmVars

\* responses the codecs were not asked for in this run
MaxSpurious == 1
\* the value of such a response
SpuriousRes == 7

\* a response nobody waits for arrives in the RIRB: one to a command of an
\* earlier session of the link (unsol = FALSE) or an unsolicited event
HwSpurious(a, unsol) ==
  /\ GCTL.reset /\ RIRBCTL
  /\ (RIRBWP - CORBRP) % ICH6_MAX_RIRB_ENTRIES < MaxSpurious
  /\ HwPush([res |-> SpuriousRes,
             res_ex |-> a + (IF unsol THEN ICH6_RIRB_EX_UNSOL_EV ELSE 0)])
  /\ UNCHANGED << CORBWP, CORBRP, CORBCTL, RIRBCTL, GCTL, IRS, IC, polls, IR,
                  corb, last_cmd, single_cmd, polling_mode, poll_count, msi,
                  probing, create, initialized, codec_mask, STATESTS, bus, pc,
                  val, do_poll, err, ret, rounds, entry, nsends, ncmds >>
  /\ UNCHANGED pcmVars

(***************************************************************************)
(* The PCM operations.                                                     *)
(***************************************************************************)
\* the streams of the controller that serve a direction
PoolOf(stream) ==
  IF stream = SNDRV_PCM_STREAM_PLAYBACK
    THEN playback_index_offset..(playback_index_offset + playback_streams - 1)
    ELSE capture_index_offset..(capture_index_offset + capture_streams - 1)

\* an assignment that does not look at opened
AssignOpened(devs, pool, key) ==
  LET keyed == {i \in pool : devs[i].assigned_key = key}
  IN IF keyed # {}
       THEN CHOOSE i \in keyed : \A j \in keyed : i <= j
       ELSE CHOOSE i \in pool : \A j \in pool : i >= j

\* an assignment that does not look at assigned_key
AssignLastFree(devs, pool, key) ==
  LET free == {i \in pool : ~devs[i].opened}
  IN IF free = {} THEN -1 ELSE CHOOSE i \in free : \A j \in free : i >= j

\* the loop of azx_assign_device over the streams of a direction, lines
\* 1838-1843: the first free stream with the key, else the last free one;
\* -1 for NULL
AssignFrom(devs, pool, key) ==
  LET free == {i \in pool : ~devs[i].opened}
      keyed == {i \in free : devs[i].assigned_key = key}
  IN IF free = {}
       THEN -1
       ELSE IF keyed # {}
         THEN CHOOSE i \in keyed : \A j \in keyed : i <= j
         ELSE CHOOSE i \in free : \A j \in free : i >= j

\* azx_assign_device: the stream it assigns, -1 for NULL
azx_assign_device(devs, stream, key) == AssignFrom(devs, PoolOf(stream), key)

\* substreams a trigger in progress works on
InTrigger(s) == trig.pc # "idle" /\ s \in trig.grp

AzxPcmOpen(s) ==
  /\ runtime[s].state = "closed"
  /\ nops < MaxOps
  /\ \E codec_ok \in BOOLEAN :
       LET key == SubstreamKey(s)
           i == azx_assign_device(azx_dev, s, key)
       IN IF i = -1
            THEN /\ last' = NoOp
                 /\ UNCHANGED << azx_dev, runtime >>
            ELSE IF ~codec_ok
              THEN /\ azx_dev' = [azx_dev EXCEPT ![i].opened = FALSE,
                                                 ![i].assigned_key = key]
                   /\ last' = NoOp
                   /\ UNCHANGED runtime
              ELSE /\ azx_dev' = [azx_dev EXCEPT ![i].opened = TRUE,
                                                 ![i].assigned_key = key,
                                                 ![i].substream = key,
                                                 ![i].running = FALSE]
                   /\ runtime' = [runtime EXCEPT ![s] = (NoGeometry @@ [state |-> "open", dev |-> i])]
                   /\ last' = NoOp
  /\ nops' = nops + 1
  /\ UNCHANGED << sd, INTCTL, SSYNC, WALLCLK, DPLBASE, position_fix, bdl_pos_adj,
                  driver_caps, irq_pending_warned, workq, trig, nticks >>
  /\ UNCHANGED << cmdVars, linked, notify >>

\* azx_pcm_close; the PCM layer has freed the hw_params before
AzxPcmClose(s) ==
  /\ runtime[s].state = "open"
  /\ nops < MaxOps
  /\ LET i == runtime[s].dev
     IN /\ azx_dev' = [azx_dev EXCEPT ![i].substream = 0, ![i].running = FALSE,
                                      ![i].opened = FALSE]
        /\ last' = NoOp
  /\ runtime' = [runtime EXCEPT ![s] = (NoGeometry @@ [state |-> "closed", dev |-> -1])]
  /\ nops' = nops + 1
  /\ UNCHANGED << sd, INTCTL, SSYNC, WALLCLK, DPLBASE, position_fix, bdl_pos_adj,
                  driver_caps, irq_pending_warned, workq, trig, nticks >>
  /\ UNCHANGED << cmdVars, linked, notify >>

\* azx_pcm_hw_params; pages: snd_pcm_lib_malloc_pages got the buffer
AzxPcmHwParams(s, g) ==
  /\ runtime[s].state \in {"open", "setup", "prepared"}
  /\ ~InTrigger(s)
  /\ nops < MaxOps
  /\ \E pages \in BOOLEAN :
       LET i == runtime[s].dev
       IN /\ azx_dev' = [azx_dev EXCEPT ![i].bufsize = 0, ![i].period_bytes = 0,
                                        ![i].format_val = 0]
          /\ runtime' = [runtime EXCEPT ![s] =
                           IF pages
                             THEN (g @@ [state |-> "setup", dev |-> i])
                             ELSE [@ EXCEPT !.state = "open"]]
          /\ last' = NoOp
  /\ nops' = nops + 1
  /\ UNCHANGED << sd, INTCTL, SSYNC, WALLCLK, DPLBASE, position_fix, bdl_pos_adj,
                  driver_caps, irq_pending_warned, workq, trig, nticks >>
  /\ UNCHANGED << cmdVars, linked, notify >>

AzxPcmHwFree(s) ==
  /\ runtime[s].state \in {"setup", "prepared"}
  /\ ~InTrigger(s)
  /\ nops < MaxOps
  /\ LET i == runtime[s].dev
     IN /\ sd' = [sd EXCEPT ![i].bdlp = FALSE, ![i].run = FALSE, ![i].inten = FALSE,
                            ![i].tag = 0]
        /\ azx_dev' = [azx_dev EXCEPT ![i].bufsize = 0, ![i].period_bytes = 0,
                                      ![i].format_val = 0]
        /\ last' = NoOp
  /\ runtime' = [runtime EXCEPT ![s].state = "open"]
  /\ nops' = nops + 1
  /\ UNCHANGED << INTCTL, SSYNC, WALLCLK, DPLBASE, position_fix, bdl_pos_adj,
                  driver_caps, irq_pending_warned, workq, trig, nticks >>
  /\ UNCHANGED << cmdVars, linked, notify >>

\* azx_pcm_prepare on the stream's fields and registers:
\* [dev, sd, err, programmed]; programmed: azx_setup_controller was reached
azx_pcm_prepare(dev, r, rt, adj) ==
  LET r1 == azx_stream_clear(r)
      format_val == snd_hda_calc_stream_format(rt)
      bufsize == rt.buffer_bytes
      period_bytes == rt.period_bytes
  IN IF format_val = 0
       THEN [dev |-> dev, sd |-> r1, err |-> -EINVAL, programmed |-> FALSE]
       ELSE LET changed == \/ bufsize # dev.bufsize
                           \/ period_bytes # dev.period_bytes
                           \/ format_val # dev.format_val
                p == IF changed
                       THEN azx_setup_periods([dev EXCEPT !.bufsize = bufsize,
                                                          !.period_bytes = period_bytes,
                                                          !.format_val = format_val],
                                              rt, adj)
                       ELSE [dev |-> dev, err |-> 0]
                r2 == IF changed THEN [r1 EXCEPT !.bdlp = FALSE] ELSE r1
            IN IF p.err < 0
                 THEN [dev |-> p.dev, sd |-> r2, err |-> p.err, programmed |-> FALSE]
                 ELSE LET dev2 == [p.dev EXCEPT !.period_wallclk = PeriodWallclk(rt)]
                      IN [dev |-> dev2, sd |-> azx_setup_controller(r2, dev2),
                          err |-> 0, programmed |-> TRUE]

\* a controller that hands the codec the tag of the stream descriptor
CodecStreamTagPlain(stream_tag, ncapture, caps) == stream_tag

\* lines 2067-2071: the tag snd_hda_codec_prepare is called with; with the
\* X-Fi workaround the playback streams count from 1 again
CodecStreamTag(stream_tag, ncapture, caps) ==
  IF AZX_DCAPS_CTX_WORKAROUND \in caps /\ stream_tag > ncapture
    THEN stream_tag - ncapture
    ELSE stream_tag

\* lines 2067-2073 on the stream's fields (codec_tag is history)
PreparedDev(p, ncapture, caps) ==
  IF p.err < 0
    THEN p.dev
    ELSE [p.dev EXCEPT !.codec_tag =
            CodecStreamTag(p.dev.stream_tag, ncapture, caps)]

\* codec_ok: snd_hda_codec_prepare succeeded
AzxPcmPrepare(s) ==
  /\ runtime[s].state \in {"setup", "prepared"}
  /\ ~InTrigger(s)
  /\ nops < MaxOps
  /\ \E codec_ok \in BOOLEAN :
       LET i == runtime[s].dev
           p == azx_pcm_prepare(azx_dev[i], sd[i], runtime[s], bdl_pos_adj)
           res == IF p.err < 0 THEN p.err ELSE IF codec_ok THEN 0 ELSE -EIO
       IN /\ azx_dev' = [azx_dev EXCEPT ![i] =
                           PreparedDev(p, capture_streams, driver_caps)]
          /\ sd' = [sd EXCEPT ![i] = p.sd]
          /\ DPLBASE' = IF /\ p.programmed
                           /\ \E d \in Directions : position_fix[d] # POS_FIX_LPIB
                          THEN [enable |-> TRUE, base |-> TRUE]
                          ELSE DPLBASE
          /\ runtime' = [runtime EXCEPT ![s].state = IF res = 0 THEN "prepared" ELSE @]
          /\ last' = Op("prepare", i, res)
  /\ nops' = nops + 1
  /\ UNCHANGED << INTCTL, SSYNC, WALLCLK, position_fix, bdl_pos_adj, driver_caps,
                  irq_pending_warned, workq, trig, nticks >>
  /\ UNCHANGED << cmdVars, linked, notify >>

\* azx_pcm_pointer
AzxPcmPointer(s) ==
  /\ runtime[s].state \in {"prepared", "running", "paused"}
  /\ \E rd \in DmaReports :
       LET i == runtime[s].dev
           g == azx_get_position(position_fix, s, azx_dev[i].bufsize,
                                 rd.posbuf, rd.lpib, FALSE)
       IN /\ position_fix' = g.fix
          /\ last' = NoOp
  /\ UNCHANGED << sd, INTCTL, SSYNC, WALLCLK, DPLBASE, azx_dev, bdl_pos_adj,
                  driver_caps, irq_pending_warned, workq, runtime, trig, nops,
                  nticks >>
  /\ UNCHANGED << cmdVars, linked, notify >>

(***************************************************************************)
(* azx_pcm_trigger, register write by register write.                      *)
(***************************************************************************)
TriggerCmds == {"START", "STOP", "PAUSE_PUSH", "PAUSE_RELEASE"}
TrigIdle ==
  [pc |-> "idle", cmd |-> "STOP", grp |-> {}, todo |-> {}, start |-> FALSE,
   rstart |-> FALSE, sbits |-> {}, nsync |-> 0]

\* the PCM state a substream must be in for a command, and the one it gets
TriggerFrom(cmd) ==
  IF cmd = "START" THEN {"prepared"}
  ELSE IF cmd = "STOP" THEN {"running", "paused"}
  ELSE IF cmd = "PAUSE_PUSH" THEN {"running"}
  ELSE IF cmd = "SUSPEND" THEN {"running"}
  ELSE {"paused"}
TriggerTo(cmd) ==
  IF cmd = "START" THEN "running"
  ELSE IF cmd = "STOP" THEN "setup"
  ELSE IF cmd = "PAUSE_PUSH" THEN "paused"
  ELSE IF cmd = "SUSPEND" THEN "suspended"
  ELSE "running"

\* the trigger returned: the PCM layer moves the substreams of the group on
TrigReturn ==
  /\ trig' = TrigIdle
  /\ runtime' = [s \in Directions |->
                   IF s \in trig.grp
                     THEN [runtime[s] EXCEPT !.state = TriggerTo(trig.cmd)]
                     ELSE runtime[s]]

\* the groups snd_pcm_group_for_each_entry can walk
Groups == IF linked THEN {Directions} ELSE {{s} : s \in Directions}

\* lines 2085-2110: the group is collected and the register lock taken
TrigEnter(cmd, grp) ==
  /\ trig.pc = "idle"
  /\ nops < MaxTrigs
  /\ grp \in Groups
  /\ \A s \in grp : runtime[s].state \in TriggerFrom(cmd)
  /\ trig' = [pc |-> "sync", cmd |-> cmd, grp |-> grp, todo |-> grp,
              start |-> cmd \in {"START", "PAUSE_RELEASE"},
              rstart |-> cmd = "START",
              sbits |-> {runtime[s].dev : s \in grp},
              nsync |-> Cardinality(grp)]
  /\ last' = NoOp
  /\ nops' = nops + 1
  /\ UNCHANGED << sd, INTCTL, SSYNC, WALLCLK, DPLBASE, azx_dev, position_fix,
                  bdl_pos_adj, driver_caps, irq_pending_warned, workq, runtime,
                  nticks >>
  /\ UNCHANGED << cmdVars, linked, notify >>

\* the mutation of SyncBits that never sets a bit
SyncBitsNone(ssync, sbits, nsync) == ssync

\* lines 2111-2118
SyncBits(ssync, sbits, nsync) == IF nsync > 1 THEN ssync \cup sbits ELSE ssync

TrigSync ==
  /\ trig.pc = "sync"
  /\ SSYNC' = SyncBits(SSYNC, trig.sbits, trig.nsync)
  /\ trig' = [trig EXCEPT !.pc = "streams"]
  /\ last' = NoOp
  /\ UNCHANGED << sd, INTCTL, WALLCLK, DPLBASE, azx_dev, position_fix,
                  bdl_pos_adj, driver_caps, irq_pending_warned, workq, runtime,
                  nops, nticks >>
  /\ UNCHANGED << cmdVars, linked, notify >>

\* a start that always takes the wall clock for the baseline
StartBaselineNow(wallclk, period_wallclk, rstart) == wallclk

\* lines 2124-2127: the baseline of a started stream; a stream that is
\* not started anew (pause release, resume) gets one period before now
StartBaseline(wallclk, period_wallclk, rstart) ==
  IF rstart THEN wallclk ELSE U32Sub(wallclk, U32(period_wallclk))

\* lines 2119-2137: one substream of the group
TrigStream ==
  /\ trig.pc = "streams"
  /\ LET s == CHOOSE x \in trig.todo : \A y \in trig.todo : x <= y
         i == runtime[s].dev
         todo == trig.todo \ {s}
         wallclk == StartBaseline(WALLCLK, azx_dev[i].period_wallclk, trig.rstart)
         base == TickSum(nticks) - (IF trig.rstart THEN 0 ELSE azx_dev[i].period_wallclk)
     IN /\ IF trig.start
             THEN /\ azx_dev' = [azx_dev EXCEPT ![i].start_wallclk = wallclk,
                                                ![i].base = base,
                                                ![i].insufficient = TRUE,
                                                ![i].running = TRUE,
                                                ![i].restarted = TRUE]
                  /\ INTCTL' = INTCTL \cup {i}
                  /\ sd' = [sd EXCEPT ![i] = azx_stream_start(@)]
             ELSE /\ azx_dev' = [azx_dev EXCEPT ![i].running = FALSE]
                  /\ INTCTL' = INTCTL \ {i}
                  /\ sd' = [sd EXCEPT ![i] = azx_stream_clear(@)]
        /\ last' = NoOp
        /\ IF todo # {}
             THEN /\ trig' = [trig EXCEPT !.todo = todo]
                  /\ UNCHANGED runtime
             ELSE IF trig.start /\ trig.nsync = 1
               THEN TrigReturn
               ELSE /\ trig' = [trig EXCEPT !.todo = todo, !.pc = "wait"]
                    /\ UNCHANGED runtime
  /\ UNCHANGED << SSYNC, WALLCLK, DPLBASE, position_fix, bdl_pos_adj,
                  driver_caps, irq_pending_warned, workq, nops, nticks >>
  /\ UNCHANGED << cmdVars, linked, notify >>

\* lines 2135-2169: the wait for the FIFOs or for the RUN bits, which ends
\* when the hardware is ready or after 5000 polls
TrigWait ==
  /\ trig.pc = "wait"
  /\ IF trig.nsync > 1
       THEN /\ trig' = [trig EXCEPT !.pc = "unsync"]
            /\ UNCHANGED runtime
       ELSE TrigReturn
  /\ last' = NoOp
  /\ UNCHANGED << sd, INTCTL, SSYNC, WALLCLK, DPLBASE, azx_dev, position_fix,
                  bdl_pos_adj, driver_caps, irq_pending_warned, workq, nops,
                  nticks >>
  /\ UNCHANGED << cmdVars, linked, notify >>

\* lines 2170-2180
TrigUnsync ==
  /\ trig.pc = "unsync"
  /\ SSYNC' = SSYNC \ trig.sbits
  /\ TrigReturn
  /\ last' = NoOp
  /\ UNCHANGED << sd, INTCTL, WALLCLK, DPLBASE, azx_dev, position_fix,
                  bdl_pos_adj, driver_caps, irq_pending_warned, workq, nops,
                  nticks >>
  /\ UNCHANGED << cmdVars, linked, notify >>

(***************************************************************************)
(* The deferred worker, the DMA engine and the wall clock.                 *)
(***************************************************************************)
\* a worker that makes one pass only
WorkOnce(pending) == FALSE

\* line 2353: the worker sleeps and makes another pass while streams pend
WorkAgain(pending) == pending # 0

\* azx_irq_pending_work, one pass of its loop
AzxIrqPendingWork ==
  /\ workq
  /\ ~RegLocked
  /\ irq_pending_warned' = TRUE
  /\ \E rd \in [{i \in Streams : azx_dev[i].irq_pending /\ azx_dev[i].running}
                 -> DmaReports] :
       LET st == WorkStreams([devs |-> azx_dev, fix |-> position_fix, pending |-> 0,
                              evaluated |-> {}, ok |-> [i \in Streams |-> 0],
                              notified |-> {}, held |-> {}, lock |-> TRUE,
                              pos |-> [i \in Streams |-> 0]],
                         0, rd)
       IN /\ azx_dev' = st.devs
          /\ position_fix' = st.fix
          /\ workq' = WorkAgain(st.pending)
          /\ last' = [op |-> "work", dev |-> -1, ret |-> st.pending,
                      evaluated |-> st.evaluated, ok |-> st.ok,
                      notified |-> st.notified,
                      held |-> st.held, lock |-> st.lock,
                      posbuf |-> [i \in Streams |->
                                    IF i \in st.evaluated THEN rd[i].posbuf ELSE 0],
                      pos |-> st.pos,
                      fix |-> position_fix]
  /\ UNCHANGED << sd, INTCTL, SSYNC, WALLCLK, DPLBASE, bdl_pos_adj, driver_caps,
                  runtime, trig, nops, nticks >>
  /\ UNCHANGED << cmdVars, linked, notify >>

\* the DMA of a running stream completes a descriptor with IOC set
HwDma(i) ==
  /\ sd[i].run
  /\ i \notin SSYNC
  /\ {k \in 1..azx_dev[i].frags : azx_dev[i].bdl[k].ioc} # {}
  /\ sd' = [sd EXCEPT ![i].sts = TRUE]
  /\ last' = NoOp
  /\ UNCHANGED << INTCTL, SSYNC, WALLCLK, DPLBASE, azx_dev, position_fix,
                  bdl_pos_adj, driver_caps, irq_pending_warned, workq, runtime,
                  trig, nops, nticks >>
  /\ UNCHANGED << cmdVars, linked, notify >>

\* the DMA of a running stream reports a FIFO or a descriptor error
HwError(i) ==
  /\ sd[i].run
  /\ ~sd[i].err
  /\ sd' = [sd EXCEPT ![i].err = TRUE]
  /\ last' = NoOp
  /\ UNCHANGED << INTCTL, SSYNC, WALLCLK, DPLBASE, azx_dev, position_fix,
                  bdl_pos_adj, driver_caps, irq_pending_warned, workq, runtime,
                  trig, nops, nticks >>
  /\ UNCHANGED << cmdVars, linked, notify >>

\* the wall clock counts on while a stream runs
Tick ==
  /\ nticks < MaxTicks
  /\ \E i \in Streams : azx_dev[i].running
  /\ WALLCLK' = U32Add(WALLCLK, U32(TickStep(nticks + 1)))
  /\ nticks' = nticks + 1
  /\ last' = NoOp
  /\ UNCHANGED << sd, INTCTL, SSYNC, DPLBASE, azx_dev, position_fix, bdl_pos_adj,
                  driver_caps, irq_pending_warned, workq, runtime, trig, nops >>
  /\ UNCHANGED << cmdVars, linked, notify >>

(***************************************************************************)
(* The streams after azx_create and azx_init_stream.                       *)
(***************************************************************************)
ClosedDev(i) ==
  [opened |-> FALSE, assigned_key |-> 0, substream |-> 0,
   running |-> FALSE, irq_pending |-> FALSE, insufficient |-> FALSE,
   bufsize |-> 0, period_bytes |-> 0, format_val |-> 0,
   frags |-> 0, bdl |-> << >>, period_wallclk |-> 0,
   start_wallclk |-> U32(0), index |-> i, stream_tag |-> i + 1,
   \* history: the periods reported for the stream, the wall clock of the
   \* last report, whether a trigger started the stream since, and the
   \* tag the codec was last prepared with (0: never)
   notified |-> 0, notified_at |-> U32(0), restarted |-> FALSE,
   codec_tag |-> 0,
   \* history: the ticks of the run (TickSum) at which the baseline lies
   base |-> 0]
ClosedSd ==
  [run |-> FALSE, inten |-> FALSE, sts |-> FALSE, err |-> FALSE, tag |-> 0, lvi |-> 0,
   cbl |-> 0, fmt |-> 0, bdlp |-> FALSE]

\* the geometry of a session that is already configured: the capture
\* substream runs without period wakeups
WarmGeometry(s) ==
  [buffer_bytes |-> 32768, period_bytes |-> 8192, rate |-> 48000, frame_bytes |-> 4,
   no_period_wakeup |-> (s = SNDRV_PCM_STREAM_CAPTURE), contig |-> 32768]

\* the fields and registers of stream i after its substream was opened,
\* given WarmGeometry and prepared
WarmStream(i, adj) ==
  azx_pcm_prepare([ClosedDev(i) EXCEPT !.opened = TRUE,
                                       !.assigned_key = SubstreamKey(StreamDir(i)),
                                       !.substream = SubstreamKey(StreamDir(i))],
                  ClosedSd, WarmGeometry(StreamDir(i)), adj)

\* warm: both substreams are open, configured and prepared
PcmInit(clk, fix, adj, warm, lnk) ==
  /\ sd = [i \in Streams |-> IF warm THEN WarmStream(i, adj).sd ELSE ClosedSd]
  /\ INTCTL = azx_int_enable({})
  /\ SSYNC = {}
  /\ WALLCLK = clk
  /\ position_fix = [d \in Directions |->
                       IF fix = POS_FIX_COMBO
                         THEN IF d = SNDRV_PCM_STREAM_PLAYBACK
                                THEN POS_FIX_LPIB
                                ELSE POS_FIX_AUTO
                         ELSE fix]
  /\ DPLBASE = [enable |-> warm /\ fix # POS_FIX_LPIB, base |-> TRUE]
  /\ azx_dev = [i \in Streams |-> IF warm THEN WarmStream(i, adj).dev ELSE ClosedDev(i)]
  /\ bdl_pos_adj = adj
  /\ driver_caps = {}
  /\ irq_pending_warned = FALSE
  /\ workq = FALSE
  /\ runtime = [s \in Directions |->
                  IF warm
                    THEN WarmGeometry(s) @@ [state |-> "prepared",
                                          dev |-> CHOOSE i \in PoolOf(s) : TRUE]
                    ELSE NoGeometry @@ [state |-> "closed", dev |-> -1]]
  /\ linked = lnk
  /\ notify = NotifyIdle
  /\ trig = TrigIdle
  /\ last = NoOp
  /\ nops = 0
  /\ nticks = 0

(***************************************************************************)
(* The controller after azx_create and the first azx_init_chip.            *)
(***************************************************************************)
WarmCmd == MkCmd(0, 0)

\* azx_codec_create is not running
NoCreate == [stage |-> "none", c |-> 0, failed |-> {}, tried |-> {}]

CmdInitWith(w, m, abr, mask, cr, sc) ==
  /\ CORBWP = w /\ CORBRP = w /\ CORBCTL = ~sc
  /\ RIRBWP = w /\ RIRBCTL = ~sc /\ RIRBSTS = FALSE
  /\ GCTL = [reset |-> TRUE, unsol |-> ~sc]
  /\ IRS = [busy |-> FALSE, valid |-> FALSE]
  /\ IC = 0 /\ IR = 0
  /\ polls = [busy |-> 0, valid |-> 0, hwfree |-> 0, hwdone |-> 0]
  /\ corb = [buf |-> [i \in Slots |-> IF 1 <= i /\ i <= w THEN WarmCmd ELSE 0]]
  /\ rirb = [buf |-> [i \in Slots |->
                        IF 1 <= i /\ i <= w
                          THEN [res |-> CodecReply(WarmCmd), res_ex |-> 0]
                          ELSE [res |-> 0, res_ex |-> 0]],
             rp |-> w, wp |-> w,
             cmds |-> [a \in CodecSlots |-> 0],
             res |-> [a \in CodecSlots |->
                        IF a = 0 /\ w > 0 THEN CodecReply(WarmCmd) ELSE 0],
             unsol |-> 0]
  /\ last_cmd = [a \in CodecSlots |-> 0]
  /\ single_cmd = sc
  /\ polling_mode = FALSE
  /\ poll_count = 0
  /\ msi = m
  /\ probing = FALSE
  /\ initialized = TRUE
  /\ codec_mask = mask /\ STATESTS = mask
  /\ create = cr
  /\ bus = [rirb_error |-> FALSE, response_reset |-> FALSE, in_reset |-> FALSE,
            allow_bus_reset |-> abr]
  /\ pc = "idle" /\ val = 0 /\ do_poll = FALSE /\ err = 0 /\ ret = 0
  /\ rounds = 0
  /\ entry = [polling_mode |-> FALSE, poll_count |-> 0, msi |-> FALSE]
  /\ nsends = w /\ ncmds = 0

\* a controller whose codecs were probed and created
CmdInit(w, m, abr) == CmdInitWith(w, m, abr, Addrs, NoCreate, FALSE)

\* the command transport, with every stream closed
Init ==
  /\ \E w \in WarmStarts, m \in BOOLEAN, abr \in BOOLEAN : CmdInit(w, m, abr)
  /\ PcmInit(U32(0), POS_FIX_AUTO, 1, FALSE, FALSE)

\* the streams while they are configured, with the command transport at rest
InitPcm ==
  /\ CmdInit(0, FALSE, FALSE)
  /\ \E fix \in PositionFixSettings, adj \in PosAdjSettings, warm \in BOOLEAN :
       PcmInit(U32(0), fix, adj, warm, FALSE)

\* two prepared streams, before they are started
InitRun ==
  /\ CmdInit(0, FALSE, FALSE)
  /\ \E clk \in ClockStarts, fix \in PositionFixSettings, adj \in RunPosAdj,
        lnk \in BOOLEAN :
       PcmInit(clk, fix, adj, TRUE, lnk)

Next ==
  \/ AzxSendCmd
  \/ ProbeCodec
  \/ ExecNoResponse
  \/ AzxGetResponse
  \/ RirbLoop
  \/ RirbDelay
  \/ RirbTimeout
  \/ ExecReturn
  \/ ProbeReturn
  \/ AzxBusReset
  \/ AzxBusResetEnd
  \/ AzxInterrupt
  \/ HwRespond

Spec == Init /\ [][Next]_vars

\* the command transport with responses that answer no pending command;
\* every wait of a receive ends within its second
NextRing ==
  \/ AzxSendCmd
  \/ ExecNoResponse
  \/ AzxGetResponse
  \/ RirbLoop
  \/ RirbDelay
  \/ ExecReturn
  \/ AzxInterrupt
  \/ HwRespond
  \/ \E a \in Addrs, unsol \in BOOLEAN : HwSpurious(a, unsol)

\* the ring after earlier round trips, interrupts delivered by INTx
InitRing ==
  /\ \E w \in WarmStarts : CmdInit(w, FALSE, FALSE)
  /\ PcmInit(U32(0), POS_FIX_AUTO, 1, FALSE, FALSE)

SpecRing == InitRing /\ [][NextRing]_vars

\* the fields and registers of stream i one period after its substream
\* was started with SNDRV_PCM_TRIGGER_START at wall clock 0
RunningStream(i, adj) ==
  [dev |-> [WarmStream(i, adj).dev EXCEPT !.start_wallclk = U32(0),
                                          !.base = -PeriodWallclk(WarmGeometry(StreamDir(i))),
                                          !.insufficient = TRUE,
                                          !.running = TRUE],
   sd |-> azx_stream_start(WarmStream(i, adj).sd)]

\* both substreams run; interrupts come by INTx and the codec layer does
\* not allow a bus reset
InitFatal ==
  /\ CmdInit(0, FALSE, FALSE)
  /\ sd = [i \in Streams |-> RunningStream(i, 1).sd]
  /\ INTCTL = azx_int_enable(Streams)
  /\ SSYNC = {}
  /\ WALLCLK = U32(RunningStream(playback_index_offset, 1).dev.period_wallclk)
  /\ position_fix = [d \in Directions |-> POS_FIX_AUTO]
  /\ DPLBASE = [enable |-> TRUE, base |-> TRUE]
  /\ azx_dev = [i \in Streams |-> RunningStream(i, 1).dev]
  /\ bdl_pos_adj = 1
  /\ driver_caps = {}
  /\ irq_pending_warned = FALSE
  /\ workq = FALSE
  /\ runtime = [s \in Directions |->
                  WarmGeometry(s) @@ [state |-> "running",
                                      dev |-> CHOOSE i \in PoolOf(s) : TRUE]]
  /\ linked = FALSE
  /\ notify = NotifyIdle
  /\ trig = TrigIdle
  /\ last = NoOp
  /\ nops = 0
  /\ nticks = 0

\* the command transport beside streams that run
NextFatal ==
  \/ AzxSendCmd
  \/ ExecNoResponse
  \/ AzxGetResponse
  \/ RirbLoop
  \/ RirbDelay
  \/ RirbTimeout
  \/ ExecReturn
  \/ AzxInterrupt
  \/ HwRespond
  \/ \E i \in Streams : HwDma(i)

SpecFatal == InitFatal /\ [][NextFatal]_vars

(***************************************************************************)
(* Suspend, reboot and detach of a controller whose streams run.           *)
(***************************************************************************)
\* azx_stop_chip on the stream registers: azx_int_disable (lines 1164-1168)
\* and azx_int_clear (lines 1184-1187)
StopChipSd(sdv) ==
  [i \in DOMAIN sdv |-> [sdv[i] EXCEPT !.inten = FALSE, !.sts = FALSE, !.err = FALSE]]

\* azx_suspend: azx_clear_irq_pending, snd_pcm_suspend_all (the PCM layer
\* triggers SUSPEND on every running substream), azx_stop_chip
AzxSuspend ==
  /\ initialized
  /\ ~RegLocked
  /\ azx_dev' = [i \in DOMAIN azx_dev |->
                   [azx_dev[i] EXCEPT !.irq_pending = FALSE, !.running = FALSE]]
  /\ sd' = StopChipSd([i \in DOMAIN sd |->
                         IF azx_dev[i].running THEN azx_stream_clear(sd[i]) ELSE sd[i]])
  /\ INTCTL' = {}
  /\ runtime' = [s \in DOMAIN runtime |->
                   [runtime[s] EXCEPT !.state = IF @ = "running" THEN "suspended" ELSE @]]
  /\ DPLBASE' = [enable |-> FALSE, base |-> FALSE]
  /\ SetChip(azx_stop_chip(Chip))
  /\ last' = Op("suspend", -1, 0)
  /\ UNCHANGED << IC, polls, IR, corb, last_cmd, polling_mode, poll_count, msi,
                  probing, create, bus, pc, val, do_poll, err, ret, rounds,
                  entry, ncmds >>
  /\ UNCHANGED << SSYNC, WALLCLK, position_fix, bdl_pos_adj, driver_caps,
                  irq_pending_warned, workq, linked, notify, trig, nops, nticks >>

\* azx_clear_irq_pending, lines 2361-2369
azx_clear_irq_pending(devs) ==
  [i \in DOMAIN devs |-> [devs[i] EXCEPT !.irq_pending = FALSE]]

\* azx_suspend statement by statement; pc holds its position.  Line 2618:
\* azx_clear_irq_pending
SuspendClear ==
  /\ pc = "idle"
  /\ initialized
  /\ ~RegLocked
  /\ pc' = "suspend_pcm"
  /\ azx_dev' = azx_clear_irq_pending(azx_dev)
  /\ last' = Op("suspend_clear", -1, 0)
  /\ UNCHANGED << CORBWP, CORBRP, CORBCTL, RIRBWP, RIRBCTL, RIRBSTS, GCTL, IRS,
                  IC, polls, IR, corb, rirb, last_cmd, single_cmd, polling_mode,
                  poll_count, msi, probing, create, initialized, codec_mask,
                  STATESTS, bus, val, do_poll, err, ret, rounds, entry, nsends,
                  ncmds >>
  /\ UNCHANGED << sd, INTCTL, SSYNC, WALLCLK, DPLBASE, position_fix, bdl_pos_adj,
                  driver_caps, irq_pending_warned, workq, runtime, linked,
                  notify, trig, nops, nticks >>

\* lines 2619-2620: snd_pcm_suspend_all triggers SUSPEND on a substream that
\* runs (azx_pcm_trigger, whose steps follow)
SuspendPcm ==
  /\ pc = "suspend_pcm"
  /\ \E s \in Directions : TrigEnter("SUSPEND", {s})

\* lines 2621-2623: every substream was suspended; azx_stop_chip
SuspendStop ==
  /\ pc = "suspend_pcm"
  /\ trig.pc = "idle"
  /\ \A s \in Directions : runtime[s].state # "running"
  /\ pc' = "idle"
  /\ sd' = StopChipSd(sd)
  /\ INTCTL' = {}
  /\ DPLBASE' = [enable |-> FALSE, base |-> FALSE]
  /\ SetChip(azx_stop_chip(Chip))
  /\ last' = Op("suspend", -1, 0)
  /\ UNCHANGED << IC, polls, IR, corb, last_cmd, polling_mode, poll_count, msi,
                  probing, create, bus, val, do_poll, err, ret, rounds, entry,
                  ncmds >>
  /\ UNCHANGED << SSYNC, WALLCLK, azx_dev, position_fix, bdl_pos_adj,
                  driver_caps, irq_pending_warned, workq, runtime, linked,
                  notify, trig, nops, nticks >>

\* azx_halt, the reboot notifier: snd_hda_bus_reboot_notify (codec layer),
\* azx_stop_chip
AzxHalt ==
  /\ sd' = IF initialized THEN StopChipSd(sd) ELSE sd
  /\ INTCTL' = IF initialized THEN {} ELSE INTCTL
  /\ DPLBASE' = IF initialized THEN [enable |-> FALSE, base |-> FALSE] ELSE DPLBASE
  /\ SetChip(azx_stop_chip(Chip))
  /\ nops < MaxOps
  /\ nops' = nops + 1
  /\ last' = Op("halt", -1, IF initialized THEN 1 ELSE 0)
  /\ UNCHANGED << IC, polls, IR, corb, last_cmd, polling_mode, poll_count, msi,
                  probing, create, bus, pc, val, do_poll, err, ret, rounds,
                  entry, ncmds >>
  /\ UNCHANGED << SSYNC, WALLCLK, azx_dev, position_fix, bdl_pos_adj,
                  driver_caps, irq_pending_warned, workq, runtime, linked,
                  notify, trig, nticks >>

\* azx_power_notify: azx_init_chip when a codec is powered on, else
\* azx_stop_chip (the controller runs and may be powered down).  last.ret
\* (history): the controller was initialized when the call came
AzxPowerNotify(power_on) ==
  /\ nops < MaxOps
  /\ nops' = nops + 1
  /\ IF power_on
       THEN /\ \E hwready \in BOOLEAN : SetChip(azx_init_chip(Chip, hwready))
            /\ sd' = IF initialized
                       THEN sd
                       ELSE [i \in DOMAIN sd |-> [sd[i] EXCEPT !.sts = FALSE, !.err = FALSE]]
            /\ INTCTL' = IF initialized THEN INTCTL ELSE azx_int_enable(INTCTL)
            /\ DPLBASE' = IF initialized
                           THEN DPLBASE
                           ELSE [enable |-> FALSE, base |-> TRUE]
            /\ last' = Op("power_up", -1, IF initialized THEN 1 ELSE 0)
       ELSE /\ SetChip(azx_stop_chip(Chip))
            /\ sd' = IF initialized THEN StopChipSd(sd) ELSE sd
            /\ INTCTL' = IF initialized THEN {} ELSE INTCTL
            /\ DPLBASE' = IF initialized
                           THEN [enable |-> FALSE, base |-> FALSE]
                           ELSE DPLBASE
            /\ last' = Op("power_down", -1, IF initialized THEN 1 ELSE 0)
  /\ UNCHANGED << IC, polls, IR, corb, last_cmd, polling_mode, poll_count, msi,
                  probing, create, bus, pc, val, do_poll, err, ret, rounds,
                  entry, ncmds >>
  /\ UNCHANGED << SSYNC, WALLCLK, azx_dev, position_fix, bdl_pos_adj,
                  driver_caps, irq_pending_warned, workq, runtime, linked,
                  notify, trig, nticks >>

\* azx_free, lines 2781-2786: azx_clear_irq_pending, azx_stream_stop of every
\* stream, azx_stop_chip
AzxFree ==
  /\ initialized
  /\ ~RegLocked
  /\ azx_dev' = [i \in DOMAIN azx_dev |-> [azx_dev[i] EXCEPT !.irq_pending = FALSE]]
  /\ sd' = StopChipSd([i \in DOMAIN sd |-> azx_stream_clear(sd[i])])
  /\ INTCTL' = {}
  /\ DPLBASE' = [enable |-> FALSE, base |-> FALSE]
  /\ SetChip(azx_stop_chip(Chip))
  /\ last' = Op("free", -1, 0)
  /\ UNCHANGED << IC, polls, IR, corb, last_cmd, polling_mode, poll_count, msi,
                  probing, create, bus, pc, val, do_poll, err, ret, rounds,
                  entry, ncmds >>
  /\ UNCHANGED << SSYNC, WALLCLK, position_fix, bdl_pos_adj, driver_caps,
                  irq_pending_warned, workq, runtime, linked, notify, trig, nops,
                  nticks >>

\* commands, interrupts and the worker of a controller whose streams run,
\* and the three ways the controller is shut down
NextDown ==
  \/ AzxSendCmd
  \/ AzxGetResponse
  \/ RirbLoop
  \/ RirbDelay
  \/ ExecReturn
  \/ HwRespond
  \/ AzxInterrupt
  \/ AzxIrqPendingWork
  \/ HwDma(playback_index_offset)
  \/ AzxSuspend
  \/ AzxHalt
  \/ AzxFree

SpecDown == InitFatal /\ [][NextDown]_vars

\* azx_suspend against the interrupt handler, the worker and the DMA of two
\* streams that run
NextSuspend ==
  \/ SuspendClear
  \/ SuspendPcm
  \/ TrigSync
  \/ TrigStream
  \/ TrigWait
  \/ SuspendStop
  \/ AzxInterrupt
  \/ AzxIrqPendingWork
  \/ \E i \in Streams : HwDma(i)
  \/ Tick

SpecSuspend == InitFatal /\ [][NextSuspend]_vars

\* the command transport of a controller that the codec layer powers up
\* and down, until the reboot notifier stops it
NextPower ==
  \/ AzxSendCmd
  \/ ExecNoResponse
  \/ AzxGetResponse
  \/ RirbLoop
  \/ RirbDelay
  \/ ExecReturn
  \/ AzxInterrupt
  \/ HwRespond
  \/ \E power_on \in BOOLEAN : AzxPowerNotify(power_on)
  \/ AzxHalt

SpecPower == InitRing /\ [][NextPower]_vars

(***************************************************************************)
(* Open and close on a controller with two streams for each direction and  *)
(* three substreams for each direction (pcm device 0).                     *)
(***************************************************************************)
Substreams == [device : {0}, number : 0..2, stream : Directions]

\* line 1827: the key of a substream
PcmKey(k) == k.device * 65536 + k.number * 4 + (k.stream + 1)

\* lines 1830-1836 with capture streams 0 and 1, playback streams 2 and 3
WidePool(stream) == IF stream = SNDRV_PCM_STREAM_PLAYBACK THEN 2..3 ELSE 0..1

\* azx_pcm_open; runtime[k].prev (history) is the stream k released at its
\* last close while no other open was assigned that stream
OpenSub(k) ==
  /\ runtime[k].state = "closed"
  /\ nops < MaxOpens
  /\ \E codec_ok \in BOOLEAN :
       LET key == PcmKey(k)
           i == AssignFrom(azx_dev, WidePool(k.stream), key)
           others == [j \in Substreams |->
                        IF j # k /\ runtime[j].prev = i
                          THEN [runtime[j] EXCEPT !.prev = -1]
                          ELSE runtime[j]]
       IN IF i = -1
            THEN /\ last' = Op("open", -1, -EBUSY) @@ [sub |-> k]
                 /\ UNCHANGED << azx_dev, runtime >>
            ELSE IF ~codec_ok
              THEN /\ azx_dev' = [azx_dev EXCEPT ![i].opened = FALSE,
                                                 ![i].assigned_key = key]
                   /\ last' = Op("open", i, -EINVAL) @@ [sub |-> k]
                   /\ runtime' = others
              ELSE /\ azx_dev' = [azx_dev EXCEPT ![i].opened = TRUE,
                                                 ![i].assigned_key = key,
                                                 ![i].substream = key,
                                                 ![i].running = FALSE]
                   /\ runtime' = [others EXCEPT ![k] = [state |-> "open", dev |-> i,
                                                        prev |-> -1]]
                   /\ last' = Op("open", i, 0) @@ [sub |-> k]
  /\ nops' = nops + 1
  /\ UNCHANGED << sd, INTCTL, SSYNC, WALLCLK, DPLBASE, position_fix, bdl_pos_adj,
                  driver_caps, irq_pending_warned, workq, trig, nticks >>
  /\ UNCHANGED << cmdVars, linked, notify >>

\* azx_pcm_close
CloseSub(k) ==
  /\ runtime[k].state = "open"
  /\ nops < MaxOpens
  /\ azx_dev' = [azx_dev EXCEPT ![runtime[k].dev].substream = 0,
                                ![runtime[k].dev].running = FALSE,
                                ![runtime[k].dev].opened = FALSE]
  /\ runtime' = [runtime EXCEPT ![k] = [state |-> "closed", dev |-> -1,
                                        prev |-> runtime[k].dev]]
  /\ last' = Op("close", runtime[k].dev, 0) @@ [sub |-> k]
  /\ nops' = nops + 1
  /\ UNCHANGED << sd, INTCTL, SSYNC, WALLCLK, DPLBASE, position_fix, bdl_pos_adj,
                  driver_caps, irq_pending_warned, workq, trig, nticks >>
  /\ UNCHANGED << cmdVars, linked, notify >>

\* the streams after azx_create, no substream open
InitOpenWith(caps) ==
  /\ CmdInit(0, FALSE, FALSE)
  /\ sd = [i \in 0..3 |-> ClosedSd]
  /\ INTCTL = azx_int_enable({})
  /\ SSYNC = {}
  /\ WALLCLK = U32(0)
  /\ position_fix = [d \in Directions |-> POS_FIX_AUTO]
  /\ DPLBASE = [enable |-> FALSE, base |-> TRUE]
  /\ azx_dev = [i \in 0..3 |-> ClosedDev(i)]
  /\ bdl_pos_adj = 1
  /\ driver_caps = caps
  /\ irq_pending_warned = FALSE
  /\ workq = FALSE
  /\ runtime = [k \in Substreams |-> [state |-> "closed", dev |-> -1, prev |-> -1]]
  /\ linked = FALSE
  /\ notify = NotifyIdle
  /\ trig = TrigIdle
  /\ last = NoOp @@ [sub |-> CHOOSE k \in Substreams : TRUE]
  /\ nops = 0
  /\ nticks = 0

\* a controller without the X-Fi workaround
InitOpen == InitOpenWith({})

NextOpen ==
  \/ \E k \in Substreams : OpenSub(k)
  \/ \E k \in Substreams : CloseSub(k)

SpecOpen == InitOpen /\ [][NextOpen]_vars

(***************************************************************************)
(* The tags of the streams on that controller, with and without the X-Fi   *)
(* workaround: substreams are opened, prepared, started, stopped, closed.  *)
(***************************************************************************)
\* chip->capture_streams of the controller with four streams
wide_capture_streams == Cardinality(WidePool(SNDRV_PCM_STREAM_CAPTURE))

\* azx_pcm_hw_params; pages: snd_pcm_lib_malloc_pages succeeded
HwParamsSub(k) ==
  /\ runtime[k].state \in {"open", "setup", "prepared"}
  /\ nops < MaxTagOps
  /\ \E pages \in BOOLEAN :
       LET i == runtime[k].dev
       IN /\ azx_dev' = [azx_dev EXCEPT ![i].bufsize = 0, ![i].period_bytes = 0,
                                        ![i].format_val = 0]
          /\ runtime' = [runtime EXCEPT ![k].state =
                           IF pages THEN "setup" ELSE "open"]
          /\ last' = NoOp @@ [sub |-> k]
  /\ nops' = nops + 1
  /\ UNCHANGED << sd, INTCTL, SSYNC, WALLCLK, DPLBASE, position_fix, bdl_pos_adj,
                  driver_caps, irq_pending_warned, workq, trig, nticks >>
  /\ UNCHANGED << cmdVars, linked, notify >>

\* azx_pcm_prepare of a substream with the geometry of WarmGeometry
PrepareSub(k) ==
  /\ runtime[k].state \in {"setup", "prepared"}
  /\ nops < MaxTagOps
  /\ \E codec_ok \in BOOLEAN :
       LET i == runtime[k].dev
           p == azx_pcm_prepare(azx_dev[i], sd[i], WarmGeometry(k.stream),
                                bdl_pos_adj)
           res == IF p.err < 0 THEN p.err ELSE IF codec_ok THEN 0 ELSE -EIO
       IN /\ azx_dev' = [azx_dev EXCEPT ![i] =
                           PreparedDev(p, wide_capture_streams, driver_caps)]
          /\ sd' = [sd EXCEPT ![i] = p.sd]
          /\ DPLBASE' = IF /\ p.programmed
                           /\ \E d \in Directions : position_fix[d] # POS_FIX_LPIB
                          THEN [enable |-> TRUE, base |-> TRUE]
                          ELSE DPLBASE
          /\ runtime' = [runtime EXCEPT ![k].state = IF res = 0 THEN "prepared" ELSE @]
          /\ last' = Op("prepare", i, res) @@ [sub |-> k]
  /\ nops' = nops + 1
  /\ UNCHANGED << INTCTL, SSYNC, WALLCLK, position_fix, bdl_pos_adj, driver_caps,
                  irq_pending_warned, workq, trig, nticks >>
  /\ UNCHANGED << cmdVars, linked, notify >>

\* azx_pcm_trigger of one substream that is not linked (nsync = 1, SSYNC is
\* left alone): START when start, STOP otherwise
TriggerSub(k, start) ==
  /\ runtime[k].state = (IF start THEN "prepared" ELSE "running")
  /\ nops < MaxTagOps
  /\ LET i == runtime[k].dev
     IN /\ IF start
             THEN /\ azx_dev' = [azx_dev EXCEPT ![i].start_wallclk = WALLCLK,
                                                ![i].base = TickSum(nticks),
                                                ![i].insufficient = TRUE,
                                                ![i].running = TRUE,
                                                ![i].restarted = TRUE]
                  /\ INTCTL' = INTCTL \cup {i}
                  /\ sd' = [sd EXCEPT ![i] = azx_stream_start(@)]
             ELSE /\ azx_dev' = [azx_dev EXCEPT ![i].running = FALSE]
                  /\ INTCTL' = INTCTL \ {i}
                  /\ sd' = [sd EXCEPT ![i] = azx_stream_clear(@)]
        /\ last' = Op("trigger", i, 0) @@ [sub |-> k]
  /\ runtime' = [runtime EXCEPT ![k].state = IF start THEN "running" ELSE "setup"]
  /\ nops' = nops + 1
  /\ UNCHANGED << SSYNC, WALLCLK, DPLBASE, position_fix, bdl_pos_adj,
                  driver_caps, irq_pending_warned, workq, trig, nticks >>
  /\ UNCHANGED << cmdVars, linked, notify >>

InitTag == \E caps \in SUBSET {AZX_DCAPS_CTX_WORKAROUND} : InitOpenWith(caps)

\* the substreams in use: two for each direction
TagSubs == {k \in Substreams : k.number <= 1}

NextTag ==
  \/ \E k \in TagSubs : OpenSub(k)
  \/ \E k \in TagSubs : CloseSub(k)
  \/ \E k \in TagSubs : HwParamsSub(k)
  \/ \E k \in TagSubs : PrepareSub(k)
  \/ \E k \in TagSubs, start \in BOOLEAN : TriggerSub(k, start)

SpecTag == InitTag /\ [][NextTag]_vars

\* the streams whose DMA a trigger started and that a codec listens to
RunningStreams == {i \in DOMAIN azx_dev : azx_dev[i].running}
WideDir(i) == IF i \in WidePool(SNDRV_PCM_STREAM_PLAYBACK)
                THEN SNDRV_PCM_STREAM_PLAYBACK
                ELSE SNDRV_PCM_STREAM_CAPTURE

\* C36 as stated: running streams have nonzero codec tags, no two of them
\* the same one
C36_TagsUnique ==
  \A i \in RunningStreams :
    /\ azx_dev[i].codec_tag # 0
    /\ \A j \in RunningStreams : i # j => azx_dev[i].codec_tag # azx_dev[j].codec_tag

\* C36: the tag of a running stream, in the descriptor and at the codec, is
\* nonzero; the descriptor tags of running streams differ; the codec tags of
\* running streams of one direction differ; with the X-Fi workaround the
\* playback streams count from 1 at the codec, without it the codec tag is
\* the descriptor tag and all running streams differ
C36_TagsUniquePerDirection ==
  \A i \in RunningStreams :
    /\ azx_dev[i].codec_tag >= 1
    /\ sd[i].tag = i + 1
    /\ \A j \in RunningStreams :
         i # j /\ WideDir(i) = WideDir(j)
           => azx_dev[i].codec_tag # azx_dev[j].codec_tag
    /\ IF AZX_DCAPS_CTX_WORKAROUND \in driver_caps
            /\ WideDir(i) = SNDRV_PCM_STREAM_PLAYBACK
         THEN azx_dev[i].codec_tag = i + 1 - wide_capture_streams
         ELSE azx_dev[i].codec_tag = sd[i].tag

\* a capture and a playback stream run with one codec tag and different
\* descriptor tags
C36_Witness ==
  /\ AZX_DCAPS_CTX_WORKAROUND \in driver_caps
  /\ RunningStreams = {1, 3}
  /\ azx_dev[1].codec_tag = 2 /\ azx_dev[3].codec_tag = 2
  /\ sd[1].tag = 2 /\ sd[3].tag = 4

\* two playback streams run, their codec tags 1 and 2
C36_WitnessPlayback ==
  /\ AZX_DCAPS_CTX_WORKAROUND \in driver_caps
  /\ RunningStreams = {2, 3}
  /\ azx_dev[2].codec_tag = 1 /\ azx_dev[3].codec_tag = 2

NextPcm ==
  \/ \E s \in Directions : AzxPcmOpen(s)
  \/ \E s \in Directions : AzxPcmClose(s)
  \/ \E s \in Directions, g \in Geometries : AzxPcmHwParams(s, g)
  \/ \E s \in Directions : AzxPcmHwFree(s)
  \/ \E s \in Directions : AzxPcmPrepare(s)
  \/ \E s \in Directions : AzxPcmPointer(s)

SpecPcm == InitPcm /\ [][NextPcm]_vars

NextRun ==
  \/ \E cmd \in TriggerCmds, grp \in SUBSET Directions : TrigEnter(cmd, grp)
  \/ TrigSync
  \/ TrigStream
  \/ TrigWait
  \/ TrigUnsync
  \/ AzxInterrupt
  \/ AzxIrqPendingWork
  \/ \E i \in Streams : HwDma(i)
  \/ Tick

SpecRun == InitRun /\ [][NextRun]_vars

\* the streams under a scheduler: a queued worker gets to run, the wall
\* clock counts on, and a trigger that holds reg_lock runs to its end
FairRun ==
  /\ WF_vars(AzxIrqPendingWork)
  /\ WF_vars(Tick)
  /\ WF_vars(TrigSync)
  /\ WF_vars(TrigStream)
  /\ WF_vars(TrigWait)

\* two prepared streams of a controller that defers completions
InitLive ==
  /\ CmdInit(0, FALSE, FALSE)
  /\ \E clk \in ClockStarts : PcmInit(clk, POS_FIX_AUTO, 1, TRUE, FALSE)

\* the playback substream is triggered alone
NextLive ==
  \/ \E cmd \in TriggerCmds : TrigEnter(cmd, {SNDRV_PCM_STREAM_PLAYBACK})
  \/ TrigSync
  \/ TrigStream
  \/ TrigWait
  \/ AzxInterrupt
  \/ AzxIrqPendingWork
  \/ HwDma(playback_index_offset)
  \/ Tick

SpecLive == InitLive /\ [][NextLive]_vars /\ FairRun

\* azx_setup_periods applied to the buffers of BdlGeometries, for each
\* setting of bdl_pos_adj
SetupPeriods ==
  /\ last.op # "setup_periods"
  /\ \E g \in BdlGeometries :
       LET i == playback_index_offset
           p == azx_setup_periods([azx_dev[i] EXCEPT !.bufsize = g.buffer_bytes,
                                                     !.period_bytes = g.period_bytes],
                                  g, bdl_pos_adj)
       IN /\ azx_dev' = [azx_dev EXCEPT ![i] = p.dev]
          /\ sd' = [sd EXCEPT ![i].bdlp = FALSE]
          /\ runtime' = [runtime EXCEPT ![SNDRV_PCM_STREAM_PLAYBACK] =
                                          g @@ [state |-> "setup", dev |-> i]]
          /\ last' = Op("setup_periods", i, p.err)
  /\ UNCHANGED << INTCTL, SSYNC, WALLCLK, DPLBASE, position_fix, bdl_pos_adj,
                  driver_caps, irq_pending_warned, workq, trig, nops, nticks >>
  /\ UNCHANGED << cmdVars, linked, notify >>

InitBdl ==
  /\ CmdInit(0, FALSE, FALSE)
  /\ \E adj \in BdlPosAdj : PcmInit(U32(0), POS_FIX_AUTO, adj, TRUE, FALSE)

SpecBdl == InitBdl /\ [][SetupPeriods]_vars

(***************************************************************************)
(* azx_init_chip statement by statement: the interrupt handler and the     *)
(* hardware run between its register writes.  pc holds the position of the *)
(* bring-up ("up_int", "up_cmd_io", "up_posbuf"); the callers of           *)
(* azx_init_chip send no command before it returned.                       *)
(***************************************************************************)
\* lines 1238-1242: if (chip->initialized) return; azx_reset(chip, full_reset)
InitChipReset ==
  /\ pc = "idle"
  /\ ~initialized
  /\ pc' = "up_int"
  /\ \E hwready \in BOOLEAN : SetChip(azx_reset(Chip, hwready))
  /\ UNCHANGED << IC, polls, IR, corb, last_cmd, polling_mode, poll_count, msi,
                  probing, create, bus, val, do_poll, err, ret, rounds, entry,
                  ncmds >>
  /\ UNCHANGED pcmVars

\* lines 1245-1247: azx_int_clear, azx_int_enable
InitChipInt ==
  /\ pc = "up_int"
  /\ pc' = "up_cmd_io"
  /\ SetChip(azx_int_clear(Chip))
  /\ sd' = [i \in DOMAIN sd |-> [sd[i] EXCEPT !.sts = FALSE, !.err = FALSE]]
  /\ INTCTL' = azx_int_enable(INTCTL)
  /\ UNCHANGED << IC, polls, IR, corb, last_cmd, polling_mode, poll_count, msi,
                  probing, create, bus, val, do_poll, err, ret, rounds, entry,
                  ncmds >>
  /\ UNCHANGED << SSYNC, WALLCLK, DPLBASE, azx_dev, position_fix, bdl_pos_adj,
                  driver_caps, irq_pending_warned, workq, runtime, linked,
                  notify, trig, last, nops, nticks >>

\* lines 1250-1251: if (!chip->single_cmd) azx_init_cmd_io(chip)
InitChipCmdIo ==
  /\ pc = "up_cmd_io"
  /\ pc' = "up_posbuf"
  /\ SetChip(IF ~single_cmd THEN azx_init_cmd_io(Chip) ELSE Chip)
  /\ UNCHANGED << IC, polls, IR, corb, last_cmd, polling_mode, poll_count, msi,
                  probing, create, bus, val, do_poll, err, ret, rounds, entry,
                  ncmds >>
  /\ UNCHANGED pcmVars

\* lines 1254-1257: the position buffer address, chip->initialized = 1
InitChipPosbuf ==
  /\ pc = "up_posbuf"
  /\ pc' = "idle"
  /\ DPLBASE' = [enable |-> FALSE, base |-> TRUE]
  /\ SetChip([Chip EXCEPT !.initialized = TRUE])
  /\ UNCHANGED << IC, polls, IR, corb, last_cmd, polling_mode, poll_count, msi,
                  probing, create, bus, val, do_poll, err, ret, rounds, entry,
                  ncmds >>
  /\ UNCHANGED << sd, INTCTL, SSYNC, WALLCLK, azx_dev, position_fix, bdl_pos_adj,
                  driver_caps, irq_pending_warned, workq, runtime, linked,
                  notify, trig, last, nops, nticks >>

\* a controller that runs, with the reset policy off and every stream closed
InitUp ==
  /\ CmdInit(0, FALSE, FALSE)
  /\ PcmInit(U32(0), POS_FIX_AUTO, 1, FALSE, FALSE)

\* the command transport of a controller that is shut down by the reboot
\* notifier and brought up again
NextUp ==
  \/ AzxSendCmd
  \/ ExecNoResponse
  \/ AzxGetResponse
  \/ RirbLoop
  \/ RirbDelay
  \/ RirbTimeout
  \/ ExecReturn
  \/ AzxInterrupt
  \/ HwRespond
  \/ AzxHalt
  \/ InitChipReset
  \/ InitChipInt
  \/ InitChipCmdIo
  \/ InitChipPosbuf

SpecUp == InitUp /\ [][NextUp]_vars

\* a controller in ring mode or loaded with single_cmd=1
InitCycle ==
  /\ \E abr \in BOOLEAN, sc \in BOOLEAN :
       CmdInitWith(0, FALSE, abr, Addrs, NoCreate, sc)
  /\ PcmInit(U32(0), POS_FIX_AUTO, 1, FALSE, FALSE)

\* the command transport with its timeouts, and the controller shut down
\* and brought up by the bus reset, the power notifier and the reboot
\* notifier
NextCycle ==
  \/ AzxSendCmd
  \/ ExecNoResponse
  \/ AzxGetResponse
  \/ RirbLoop
  \/ RirbDelay
  \/ RirbTimeout
  \/ ExecReturn
  \/ AzxBusReset
  \/ AzxBusResetEnd
  \/ AzxInterrupt
  \/ HwRespond
  \/ \E power_on \in BOOLEAN : AzxPowerNotify(power_on)
  \/ AzxHalt

SpecCycle == InitCycle /\ [][NextCycle]_vars

\* a controller loaded with single_cmd=1: no ring, no unsolicited responses
InitSingle ==
  /\ CmdInitWith(0, FALSE, FALSE, Addrs, NoCreate, TRUE)
  /\ PcmInit(U32(0), POS_FIX_AUTO, 1, FALSE, FALSE)

NextSingle ==
  \/ AzxSendCmd
  \/ ExecNoResponse
  \/ AzxGetResponse
  \/ ExecReturn

SpecSingle == InitSingle /\ [][NextSingle]_vars

\* azx_codec_create after azx_create: STATESTS was latched into codec_mask
\* by the first azx_reset
InitProbe ==
  /\ \E m \in BOOLEAN, mask \in SUBSET (0..(max_slots - 1)) :
       /\ mask # {}
       /\ CmdInitWith(0, m, FALSE, mask,
                      [stage |-> "probe", c |-> 0, failed |-> {}, tried |-> {}],
                      FALSE)
  /\ PcmInit(U32(0), POS_FIX_AUTO, 1, FALSE, FALSE)

NextProbe ==
  \/ ProbeSlot
  \/ ProbeSkip
  \/ ProbeResult
  \/ ProbeReset
  \/ CodecNew
  \/ AzxGetResponse
  \/ RirbLoop
  \/ RirbTimeout
  \/ AzxInterrupt
  \/ HwRespond

SpecProbe == InitProbe /\ [][NextProbe]_vars

\* the playback substream with a DMA engine that also reports errors
NextErr ==
  \/ \E cmd \in TriggerCmds : TrigEnter(cmd, {SNDRV_PCM_STREAM_PLAYBACK})
  \/ TrigSync
  \/ TrigStream
  \/ TrigWait
  \/ AzxInterrupt
  \/ AzxIrqPendingWork
  \/ HwDma(playback_index_offset)
  \/ HwError(playback_index_offset)
  \/ Tick

SpecErr == InitLive /\ [][NextErr]_vars

\* the running playback substream is stopped, prepared and started again
\* (the recovery from an underrun) while completions are deferred
NextRestart ==
  \/ \E cmd \in TriggerCmds : TrigEnter(cmd, {SNDRV_PCM_STREAM_PLAYBACK})
  \/ TrigSync
  \/ TrigStream
  \/ TrigWait
  \/ AzxPcmPrepare(SNDRV_PCM_STREAM_PLAYBACK)
  \/ AzxInterrupt
  \/ AzxIrqPendingWork
  \/ HwDma(playback_index_offset)
  \/ Tick

SpecRestart == InitFatal /\ [][NextRestart]_vars

(***************************************************************************)
(* Properties of the command transport.                                    *)
(***************************************************************************)
\* a receive of azx_rirb_get_response that returned a response
RingReturned == pc = "ret" /\ ~single_cmd /\ ret # AllOnes

\* C1: a receive that returns through the ring returns the response to the
\* command of its pair, the most recent command sent to that address,
\* whatever was sent to this or another address before it.
C1_RoundTrip == RingReturned => ret = CodecReply(val)

\* the receive returned the response after the ring wrapped around
C1_Witness ==
  /\ RingReturned /\ ret = CodecReply(val)
  /\ nsends > ICH6_MAX_CORB_ENTRIES
  /\ rirb.rp = nsends % ICH6_MAX_RIRB_ENTRIES

\* C2: the CORB write index and the RIRB software read index stay within
\* 0..255, and after n sends since the ring was initialised the write index
\* is n mod 256.
C2_RingIndices ==
  /\ CORBWP >= 0 /\ CORBWP < ICH6_MAX_CORB_ENTRIES
  /\ rirb.rp >= 0 /\ rirb.rp < ICH6_MAX_RIRB_ENTRIES
  /\ CORBWP = nsends % ICH6_MAX_CORB_ENTRIES

\* more than 256 sends were made and the index wrapped
C2_Witness ==
  /\ nsends > ICH6_MAX_CORB_ENTRIES
  /\ CORBWP = nsends - ICH6_MAX_CORB_ENTRIES
  /\ rirb.rp = CORBWP

\* a send or a receive of the codec layer, as a step
SendStep == pc = "idle" /\ pc' = "sent"
ReceiveStep == pc = "sent" /\ pc' \in {"loop", "ret"}

\* the rounds a receive with no response makes before its last stage, from
\* the escalation state it began with
ExpectedRounds(e) ==
  (IF e.polling_mode THEN 0 ELSE 3 - e.poll_count) + (IF e.msi THEN 1 ELSE 0) + 1

\* C8 as stated: the switch to single-command mode comes with the fifth
\* timeout, and send and receive in single-command mode leave the ring
\* state alone: buffers, indices, pending counters and stored responses.
C8_Original ==
  [][ /\ (~single_cmd /\ single_cmd') => rounds' = 5
      /\ (single_cmd /\ (SendStep \/ ReceiveStep)) =>
           (corb' = corb /\ rirb' = rirb /\ CORBWP' = CORBWP /\ RIRBWP' = RIRBWP)
    ]_vars

\* C8 as amended: the switch is made by a timed-out receive, after as many
\* rounds as its escalation state leaves (5 from a fresh state with MSI on,
\* never more); it is never undone; after it send and receive go through
\* the immediate-command registers and leave the ring buffers, indices and
\* pending counters alone, but store their response in rirb.res[addr].
C8_SingleFallback ==
  [][ /\ (~single_cmd /\ single_cmd') =>
           /\ pc = "checked" /\ pc' = "ret" /\ ret' = AllOnes
           /\ rounds' = ExpectedRounds(entry)
           /\ rounds' <= 5
           /\ (~entry.polling_mode /\ entry.poll_count = 0 /\ entry.msi) => rounds' = 5
      /\ single_cmd => single_cmd'
      /\ (single_cmd /\ SendStep) =>
           /\ corb' = corb /\ CORBWP' = CORBWP /\ RIRBWP' = RIRBWP
           /\ rirb'.buf = rirb.buf /\ rirb'.rp = rirb.rp /\ rirb'.wp = rirb.wp
           /\ rirb'.cmds = rirb.cmds
           /\ \A a \in CodecSlots : a # azx_command_addr(val') => rirb'.res[a] = rirb.res[a]
           /\ err' = 0 => (IC' = val' /\ rirb'.res[azx_command_addr(val')] = CodecReply(val'))
      /\ (single_cmd /\ ReceiveStep) =>
           /\ corb' = corb /\ rirb' = rirb /\ CORBWP' = CORBWP /\ RIRBWP' = RIRBWP
           /\ pc' = "ret" /\ ret' = rirb.res[azx_command_addr(val)]
    ]_vars

\* after the switch a command went through the single-command path and its
\* receive returned the response
C8_Witness ==
  /\ single_cmd /\ pc = "ret" /\ err = 0
  /\ ret = CodecReply(val) /\ IC = val
  /\ rirb.res[azx_command_addr(val)] = CodecReply(val)

\* C9: once in single-command mode the controller never returns to ring
\* mode, whatever step follows (a chip restart included).
C9_OneWay == [][single_cmd => single_cmd']_vars

\* the chip was stopped and brought up again after the switch (by a reset
\* the controller did not leave in time) and is still in single-command mode
C9_Witness == single_cmd /\ initialized /\ ~GCTL.reset /\ ~RIRBCTL /\ pc = "idle"

\* C10: a receive makes at most 4 rounds that wait again and returns with the
\* fifth timeout at the latest; a receive that failed outside probing has
\* switched to single-command mode or asked for a bus reset, unless it has
\* just disabled MSI and could not get the interrupt back (once per session).
C10_ReceiveBounded ==
  /\ rounds <= 5
  /\ (pc \in {"loop", "checked"}) => rounds <= 4
  /\ (pc = "ret" /\ ret = AllOnes /\ rounds > 0) =>
        \/ single_cmd
        \/ probing
        \/ bus.response_reset
        \/ (entry.msi /\ ~msi /\ bus.rirb_error)

\* a receive returned the error after five rounds
C10_Witness == pc = "ret" /\ ret = AllOnes /\ rounds = 5

\* the stages a waiting receive has gone through since it began: forced
\* polls, the switch to polling mode, the MSI disable
StagesTried ==
  (poll_count - entry.poll_count)
    + (IF polling_mode /\ ~entry.polling_mode THEN 1 ELSE 0)
    + (IF entry.msi /\ ~msi THEN 1 ELSE 0)

\* the stages come in order: polling mode is switched on only once the forced
\* polls are used up, MSI is disabled only in polling mode, and a receive
\* fails only in polling mode with MSI off
StagesInOrder ==
  /\ (pc \in {"loop", "checked"}) =>
       /\ rounds = StagesTried
       /\ (polling_mode /\ ~entry.polling_mode) => poll_count = 2
       /\ (entry.msi /\ ~msi) => polling_mode
  /\ (pc = "ret" /\ ret = AllOnes /\ rounds > 0) => (polling_mode /\ ~msi)

\* polling mode is never left and MSI is never enabled again
EscalationPersists == (polling_mode => polling_mode') /\ (~msi => ~msi')

\* C21 as stated: within one receive each fallback stage (forced poll, switch
\* to polling mode, MSI disable, then the probe failure or the fatal fault)
\* is tried in order and once, and polling mode and the disabled MSI persist
\* across calls.
C21_Original ==
  /\ [](StagesInOrder /\ poll_count - entry.poll_count <= 1)
  /\ [][EscalationPersists]_vars

\* C21 as amended: the stages are tried in order, the forced poll up to twice
\* in one receive (while poll_count is below 2), every other stage once, and
\* polling mode and the disabled MSI persist across calls.
C21_StagesInOrder ==
  /\ [](StagesInOrder /\ poll_count - entry.poll_count <= 2 /\ poll_count <= 2)
  /\ [][EscalationPersists]_vars

\* a receive that began with nothing escalated went through two forced
\* polls, the switch to polling mode and the MSI disable, and failed with
\* its fifth timeout
C21_Witness ==
  /\ pc = "ret" /\ ret = AllOnes /\ rounds = 5
  /\ ~entry.polling_mode /\ entry.poll_count = 0 /\ entry.msi
  /\ polling_mode /\ poll_count = 2 /\ ~msi

\* a later receive began in polling mode with MSI off and failed with its
\* first timeout
C21_WitnessLater ==
  /\ pc = "ret" /\ ret = AllOnes /\ rounds = 1
  /\ entry.polling_mode /\ ~entry.msi /\ ncmds = 2

\* C22: a receive that times out while a codec is probed, with the polling
\* and MSI stages behind it, returns the error value and leaves rirb_error,
\* response_reset, single_cmd, the ring controls and GCTL as they were.
C22_ProbeFailsQuietly ==
  [][ (pc = "checked" /\ probing /\ pc' = "ret" /\ msi' = msi) =>
        /\ polling_mode /\ ~msi
        /\ ret' = AllOnes
        /\ bus' = bus
        /\ single_cmd' = single_cmd
        /\ CORBCTL' = CORBCTL /\ RIRBCTL' = RIRBCTL /\ GCTL' = GCTL
    ]_vars

\* a probe timed out on a ring that was running without error, and returned
\* the error value with the ring still running and nothing marked
C22_Witness ==
  /\ pc = "ret" /\ probing /\ ret = AllOnes /\ rounds > 0
  /\ ~bus.rirb_error /\ ~bus.response_reset /\ ~single_cmd
  /\ CORBCTL /\ RIRBCTL /\ GCTL.unsol

\* the timeout of a receive that reaches the fatal stage: outside probing, in
\* polling mode, MSI off
FatalStep == pc = "checked" /\ rounds' = rounds + 1 /\ ~probing /\ polling_mode /\ ~msi

\* C23: a fatal fault outside probing sets rirb_error and returns the error
\* value; when a bus reset is allowed, none was requested and none is in
\* progress, it sets response_reset and leaves the ring mode and the ring
\* controls alone; otherwise it clears response_reset, stops the CORB and
\* RIRB DMA, clears the unsolicited-response enable and sets single_cmd.
C23_FatalFault ==
  [][ FatalStep =>
        /\ bus'.rirb_error /\ ret' = AllOnes /\ pc' = "ret"
        /\ bus'.allow_bus_reset = bus.allow_bus_reset /\ bus'.in_reset = bus.in_reset
        /\ IF bus.allow_bus_reset /\ ~bus.response_reset /\ ~bus.in_reset
             THEN /\ bus'.response_reset
                  /\ single_cmd' = single_cmd
                  /\ CORBCTL' = CORBCTL /\ RIRBCTL' = RIRBCTL /\ GCTL' = GCTL
             ELSE /\ ~bus'.response_reset
                  /\ single_cmd'
                  /\ ~CORBCTL' /\ ~RIRBCTL'
                  /\ GCTL' = [GCTL EXCEPT !.unsol = FALSE]
    ]_vars

\* with bus reset allowed, a receive failed during the reset that an earlier
\* failure had asked for, and switched to single-command mode
C23_Witness ==
  /\ pc = "ret" /\ ret = AllOnes /\ rounds > 0 /\ ~probing
  /\ bus.allow_bus_reset /\ bus.in_reset /\ bus.rirb_error /\ ~bus.response_reset
  /\ single_cmd /\ ~CORBCTL /\ ~RIRBCTL /\ ~GCTL.unsol

\* with bus reset allowed, a receive failed for the first time and asked for
\* a reset, still in ring mode
C23_WitnessReset ==
  /\ pc = "ret" /\ ret = AllOnes /\ rounds > 0 /\ ~probing
  /\ bus.rirb_error /\ bus.response_reset /\ ~bus.in_reset
  /\ ~single_cmd /\ CORBCTL /\ RIRBCTL /\ GCTL.unsol

\* a step that drains the RIRB (azx_update_rirb moved the read index)
DrainStep == rirb'.rp # rirb.rp

\* the responses of the drained entries that are addressed to a
DrainedFor(a) ==
  { rirb.buf[k].res :
      k \in { j \in Slots :
                /\ (j - rirb.rp - 1) % ICH6_MAX_RIRB_ENTRIES
                     < (rirb'.rp - rirb.rp) % ICH6_MAX_RIRB_ENTRIES
                /\ (rirb.buf[j].res_ex \div ICH6_RIRB_EX_UNSOL_EV) % 2 = 0
                /\ azx_response_addr(rirb.buf[j].res_ex) = a } }

\* C11: every pending counter stays >= 0; a drain applies a response to
\* address a only when a command is pending there: with pending[a] = 0 it
\* changes neither pending[a] nor the stored response of a, and a stored
\* response it changes is a drained response for a, with pending[a] lowered.
C11_AppliedOnlyIfPending ==
  [][ /\ \A a \in CodecSlots : rirb.cmds[a] >= 0 /\ rirb'.cmds[a] >= 0
      /\ DrainStep =>
            \A a \in CodecSlots :
              /\ rirb.cmds[a] = 0 =>
                   rirb'.cmds[a] = 0 /\ rirb'.res[a] = rirb.res[a]
              /\ rirb'.cmds[a] <= rirb.cmds[a]
              /\ rirb'.cmds[a] < rirb.cmds[a] => rirb'.res[a] \in DrainedFor(a)
              /\ rirb'.cmds[a] = rirb.cmds[a] => rirb'.res[a] = rirb.res[a]
    ]_vars

\* a spurious response for address 0 was drained with nothing pending there
\* and the stored response of an earlier command is still in place
C11_Witness ==
  /\ rirb.rp = RIRBWP /\ rirb.rp # CORBRP
  /\ rirb.buf[rirb.rp] = [res |-> SpuriousRes, res_ex |-> 0]
  /\ rirb.cmds[0] = 0
  /\ rirb.res[0] = CodecReply(MkCmd(0, 1))

\* C13: the fallback to single_cmd mode inside the receive leaves every
\* stream's fields (opened, running, irq_pending, descriptor list), every
\* stream's registers (run bit, interrupt enable) and the per-stream
\* interrupt enables of INTCTL as they were.
C13_FatalLeavesStreams ==
  [][ (pc = "checked" /\ ~single_cmd /\ single_cmd') =>
        /\ azx_dev' = azx_dev
        /\ sd' = sd
        /\ INTCTL' = INTCTL
    ]_vars

\* the receive fell back to single_cmd mode while the playback stream ran
\* with a deferred completion and its interrupt enabled
C13_Witness ==
  /\ single_cmd /\ pc = "ret" /\ ret = AllOnes /\ ~RIRBCTL
  /\ azx_dev[playback_index_offset].running
  /\ azx_dev[playback_index_offset].irq_pending
  /\ sd[playback_index_offset].run /\ sd[playback_index_offset].inten
  /\ playback_index_offset \in INTCTL

\* the step is an open of substream k
OpenStep(k) == last'.op = "open" /\ last'.sub = k /\ nops' = nops + 1

\* C16: after every open and close, an open substream holds a stream of the
\* pool of its direction that is marked opened and bound to it, no two open
\* substreams hold the same stream, and an open returns -EBUSY exactly when
\* every stream of the direction was opened before the call.
C16_ExclusivePools ==
  [][ /\ \A k \in Substreams :
           runtime'[k].state = "open" =>
             /\ runtime'[k].dev \in WidePool(k.stream)
             /\ azx_dev'[runtime'[k].dev].opened
             /\ azx_dev'[runtime'[k].dev].substream = PcmKey(k)
      /\ \A k, j \in Substreams :
           (k # j /\ runtime'[k].state = "open" /\ runtime'[j].state = "open")
             => runtime'[k].dev # runtime'[j].dev
      /\ \A k \in Substreams :
           OpenStep(k) =>
             (last'.ret = -EBUSY <=> \A i \in WidePool(k.stream) : azx_dev[i].opened)
    ]_vars

\* the third playback substream was refused with -EBUSY while the two
\* playback streams were held by the first two and a capture stream was free
C16_Witness ==
  /\ last.op = "open" /\ last.ret = -EBUSY
  /\ last.sub = [device |-> 0, number |-> 2, stream |-> SNDRV_PCM_STREAM_PLAYBACK]
  /\ \A i \in WidePool(SNDRV_PCM_STREAM_PLAYBACK) : azx_dev[i].opened
  /\ \E i \in WidePool(SNDRV_PCM_STREAM_CAPTURE) : ~azx_dev[i].opened

C18_NotifyUnlocked == last.op \in {"irq", "work"} => (last.held = {} /\ last.lock)

\* the interrupt handler reported a period of the playback stream
C18_Witness ==
  /\ last.op = "irq" /\ playback_index_offset \in last.notified
  /\ last.held = {} /\ last.lock
  /\ azx_dev[playback_index_offset].notified = 1

\* the worker reported a period of the playback stream
C18_WitnessWork ==
  /\ last.op = "work" /\ playback_index_offset \in last.notified
  /\ last.held = {} /\ last.lock

\* C19: once azx_stop_chip has run from suspend, reboot or detach, no pass
\* of the worker evaluates a stream (reading WALLCLK and the position) and
\* no receive is still in its wait loop.
C19_StopAwaits ==
  [][ ~initialized =>
        /\ ~(last'.op = "work" /\ last'.evaluated # {})
        /\ ~(pc \in {"loop", "checked"} /\ pc' # pc)
    ]_vars

\* after the reboot notifier stopped the controller, the worker evaluated
\* the playback stream, which still runs with its completion deferred
C19_Witness ==
  /\ ~initialized /\ ~RIRBCTL
  /\ last.op = "work" /\ playback_index_offset \in last.evaluated
  /\ azx_dev[playback_index_offset].running
  /\ sd[playback_index_offset].run

\* C20: azx_init_chip called for an initialized controller, and azx_stop_chip
\* called for one that is not initialized, change no register and no field
\* of the driver.
C20_Idempotent ==
  [][ (/\ nops' = nops + 1
       /\ \/ last'.op = "power_up" /\ initialized
          \/ last'.op \in {"power_down", "halt"} /\ ~initialized)
        => UNCHANGED << cmdVars, sd, INTCTL, SSYNC, WALLCLK, DPLBASE, azx_dev,
                        position_fix, bdl_pos_adj, driver_caps, irq_pending_warned,
                        workq, runtime, linked, notify, trig, nticks >>
    ]_vars

\* azx_init_chip was called for an initialized controller with a command
\* on the ring and its response outstanding
C20_Witness ==
  /\ last.op = "power_up" /\ last.ret = 1
  /\ initialized /\ CORBCTL /\ RIRBCTL
  /\ CORBWP # 0 /\ rirb.cmds[0] = 1 /\ pc = "loop"

\* azx_stop_chip was called for a controller that was not initialized
C20_WitnessStop ==
  /\ last.op = "halt" /\ last.ret = 0
  /\ ~initialized /\ ~CORBCTL /\ ~RIRBCTL

\* C12: a bring-up whose global reset never completes does not mark the
\* controller initialized (it would report "controller not ready" instead):
\* the controller is never marked initialized while GCTL reads out of reset.
C12_NotReadyNotInitialized == initialized => GCTL.reset

\* azx_bus_reset restarted the controller, the reset did not complete, and
\* the controller is marked initialized with its ring DMAs switched on
C12_Witness == bus.in_reset /\ initialized /\ ~GCTL.reset /\ ~single_cmd /\ RIRBCTL

TypeOK ==
  /\ CORBWP \in Slots /\ CORBRP \in Slots /\ RIRBWP \in Slots
  /\ rirb.rp \in Slots /\ rirb.wp \in Slots
  /\ pc \in {"idle", "sent", "loop", "checked", "ret",
            "up_int", "up_cmd_io", "up_posbuf", "probe_reset",
            "suspend_pcm"}

(***************************************************************************)
(* Properties of the stream configuration (SpecPcm).                       *)
(***************************************************************************)
\* what azx_pcm_prepare and azx_setup_periods keep of a configuration
StreamConfig(d) == << d.bufsize, d.period_bytes, d.format_val, d.bdl, d.frags >>

\* the entries the buffer of a substream needs at least: one for each
\* contiguous piece
PiecesOf(rt) == rt.buffer_bytes \div rt.contig

\* a call of azx_pcm_prepare for substream s, as a step
PrepareStep(s) == last'.op = "prepare" /\ last'.dev = runtime[s].dev /\ nops' = nops + 1

\* C3: a prepare whose descriptor list would exceed 256 entries fails with
\* -EINVAL, and a prepare that fails so leaves the stream's buffer size,
\* period size, format value, descriptor list and descriptor count as they
\* were before the call.
C3_OverflowKeepsConfig ==
  [][ \A s \in Directions :
        PrepareStep(s) =>
          /\ PiecesOf(runtime[s]) > AZX_MAX_BDL_ENTRIES => last'.ret = -EINVAL
          /\ last'.ret = -EINVAL =>
               StreamConfig(azx_dev'[runtime[s].dev]) = StreamConfig(azx_dev[runtime[s].dev])
    ]_vars

\* a prepare of a 2 MiB buffer scattered over 512 pages failed with -EINVAL
\* and left the requested sizes and a list of 256 entries in the stream
C3_Witness ==
  /\ last.op = "prepare" /\ last.ret = -EINVAL
  /\ azx_dev[last.dev].bufsize = 2097152
  /\ azx_dev[last.dev].period_bytes = 65536
  /\ azx_dev[last.dev].frags = AZX_MAX_BDL_ENTRIES

\* a substream in the prepared state with a 32768-byte buffer and 8192-byte
\* periods
Prepared32k(s) ==
  /\ runtime[s].state = "prepared"
  /\ runtime[s].buffer_bytes = 32768
  /\ runtime[s].period_bytes = 8192

\* the sizes of the first n entries of a descriptor list, added up
RECURSIVE BdlRange(_, _, _)
BdlRange(bdl, lo, hi) ==
  IF lo > hi THEN 0
  ELSE IF lo = hi THEN bdl[lo].size
  ELSE LET mid == (lo + hi) \div 2
       IN BdlRange(bdl, lo, mid) + BdlRange(bdl, mid + 1, hi)

BdlBytes(bdl, n) == BdlRange(bdl, 1, n)

\* C7 as stated: a playback stream configured with a 32768-byte buffer and
\* 8192-byte periods has exactly 4 descriptor entries of 8192 bytes each,
\* and the last one raises the interrupt on completion.
C7_Original ==
  (/\ Prepared32k(SNDRV_PCM_STREAM_PLAYBACK)
   /\ last.op = "prepare" /\ last.ret = 0
   /\ last.dev = runtime[SNDRV_PCM_STREAM_PLAYBACK].dev) =>
    LET d == azx_dev[runtime[SNDRV_PCM_STREAM_PLAYBACK].dev]
    IN /\ d.frags = 4
       /\ Len(d.bdl) = 4
       /\ \A k \in 1..4 : d.bdl[k].size = 8192
       /\ d.bdl[4].ioc

\* C7 as amended: the list always covers the 32768 bytes.  Without position
\* adjustment (bdl_pos_adj = 0) and with periods that are contiguous it has
\* exactly 4 entries of 8192 bytes, each raising the interrupt when period
\* wakeups are on.  With a position adjustment of n frames (the default is 1
\* or 32) and a contiguous buffer it has 5 entries: 4n bytes, three times
\* 8192 bytes, and a last one of 8192 - 4n bytes that raises no interrupt.
C7_DescriptorList ==
  \A s \in Directions :
    Prepared32k(s) =>
      LET d == azx_dev[runtime[s].dev]
          wake == ~runtime[s].no_period_wakeup
      IN /\ d.frags = Len(d.bdl)
         /\ BdlBytes(d.bdl, d.frags) = 32768
         /\ d.bufsize = 32768 /\ d.period_bytes = 8192
         /\ (bdl_pos_adj = 0 /\ runtime[s].contig >= 8192) =>
              /\ d.frags = 4
              /\ \A k \in 1..4 : d.bdl[k].size = 8192 /\ d.bdl[k].ioc = wake
         /\ (bdl_pos_adj > 0 /\ runtime[s].contig >= 8192) =>
              /\ d.frags = 5
              /\ d.bdl[1].size = 4 * bdl_pos_adj /\ d.bdl[1].ioc = wake
              /\ \A k \in 2..4 : d.bdl[k].size = 8192 /\ d.bdl[k].ioc = wake
              /\ d.bdl[5].size = 8192 - 4 * bdl_pos_adj /\ ~d.bdl[5].ioc

\* the playback substream was opened, configured and prepared without
\* position adjustment and has its 4 entries
C7_Witness ==
  /\ Prepared32k(SNDRV_PCM_STREAM_PLAYBACK)
  /\ last.op = "prepare" /\ last.ret = 0
  /\ last.dev = runtime[SNDRV_PCM_STREAM_PLAYBACK].dev
  /\ nops = MaxOps
  /\ bdl_pos_adj = 0
  /\ azx_dev[last.dev].frags = 4
  /\ azx_dev[last.dev].bdl[4].ioc

(***************************************************************************)
(* Properties of the running streams (SpecRun).                            *)
(***************************************************************************)
\* azx_interrupt or azx_irq_pending_work evaluated stream i in this step
Evaluated(i) == last'.op \in {"irq", "work"} /\ i \in last'.evaluated

\* the wall clock ticks since the baseline of stream i
Elapsed(i) == U32Sub(WALLCLK, azx_dev[i].start_wallclk)

\* the evaluation of stream i rejected as too early and changed nothing
RejectedEarly(i) ==
  /\ last'.ok[i] = -1
  /\ i \notin last'.notified
  /\ azx_dev'[i] = azx_dev[i]
  /\ position_fix'[StreamDir(i)] = position_fix[StreamDir(i)]

\* C4 as stated: an evaluation with fewer elapsed ticks than 2/3 of the
\* period's ticks (3 * elapsed < 2 * period) rejects as too early, whatever
\* position is reported, and changes neither the baseline, nor the
\* position-fix mode, nor notifies.
C4_Original ==
  [][ \A i \in Streams :
        (Evaluated(i) /\ U32Lt(Elapsed(i), U32((2 * azx_dev[i].period_wallclk + 2) \div 3)))
          => RejectedEarly(i)
    ]_vars

\* C4 as amended: the limit is the integer quotient (2 * period) / 3, so an
\* evaluation with fewer elapsed ticks than that rejects as too early; one
\* with exactly that many ticks (which can still be below 2/3 of the period)
\* goes on to read the position.
C4_TooEarly ==
  [][ \A i \in Streams :
        /\ (Evaluated(i) /\ U32Lt(Elapsed(i), U32((2 * azx_dev[i].period_wallclk) \div 3)))
             => RejectedEarly(i)
        /\ (Evaluated(i) /\ last'.ok[i] = -1 /\ bdl_pos_adj # 0)
             => U32Lt(Elapsed(i), U32((2 * azx_dev[i].period_wallclk) \div 3))
    ]_vars

\* an interrupt came after half a period and its evaluation was rejected
C4_Witness ==
  /\ last.op = "irq"
  /\ \E i \in last.evaluated :
       /\ last.ok[i] = -1
       /\ azx_dev[i].running
       /\ azx_dev[i].period_wallclk = 1024000
       /\ U32Sub(WALLCLK, azx_dev[i].start_wallclk) = U32(512000)

\* the step reports a period of stream i to the PCM layer
Accepted(i) == last'.op \in {"irq", "work"} /\ i \in last'.notified

\* the wall clock ticks since the last report of stream i
SinceLast(i) == U32Sub(WALLCLK, azx_dev[i].notified_at)

\* C14 as stated: two accepted completions of one stream, from the
\* interrupt handler or the worker, are at least 2/3 of a period of wall
\* clock ticks apart (3 * ticks >= 2 * period).
C14_Original ==
  [][ \A i \in Streams :
        (Accepted(i) /\ azx_dev[i].notified > 0)
          => ~U32Lt(SinceLast(i), U32((2 * azx_dev[i].period_wallclk + 2) \div 3))
    ]_vars

\* C14 as amended: two accepted completions of one stream with no start or
\* resume of the stream between them are at least the integer quotient
\* (2 * period) / 3 of wall clock ticks apart.
C14_AcceptSeparation ==
  [][ \A i \in Streams :
        (Accepted(i) /\ azx_dev[i].notified > 0 /\ ~azx_dev[i].restarted)
          => ~U32Lt(SinceLast(i), U32((2 * azx_dev[i].period_wallclk) \div 3))
    ]_vars

\* the worker reported the second period of the playback stream, which one
\* trigger had started, 682666 ticks after the interrupt reported the first
C14_Witness ==
  /\ last.op = "work" /\ playback_index_offset \in last.notified
  /\ nops = 1 /\ nticks = 4
  /\ azx_dev[playback_index_offset].notified = 2
  /\ azx_dev[playback_index_offset].notified_at = WALLCLK
  /\ azx_dev[playback_index_offset].start_wallclk = WALLCLK
  /\ azx_dev[playback_index_offset].period_wallclk = 1024000

\* stream i runs with a deferred completion while the wall clock has two
\* steps (more than 7/12 of a period) to go
Deferred(i) ==
  /\ azx_dev[i].irq_pending /\ azx_dev[i].running /\ azx_dev[i].substream # 0
  /\ nticks + 2 <= MaxTicks

\* a period of stream i was just reported, or the stream was stopped
ReportedOrStopped(i) ==
  \/ last.op \in {"irq", "work"} /\ i \in last.notified
  \/ ~azx_dev[i].running

BeforeBoundaryCase(i) ==
  /\ Evaluated(i)
  /\ ~U32Lt(Elapsed(i), U32((azx_dev[i].period_wallclk * 2) \div 3))
  /\ U32Lt(Elapsed(i), U32((azx_dev[i].period_wallclk * 5) \div 4))
  /\ azx_dev[i].period_bytes # 0
  /\ last'.pos[i] % azx_dev[i].period_bytes > azx_dev[i].period_bytes \div 2

\* C24 as stated: in that case a nonzero position adjustment accepts the
\* completion and moves the baseline to the current tick, and a zero
\* adjustment rejects it as "not yet" (verdict 0).
C24_Original ==
  [][ \A i \in Streams :
        BeforeBoundaryCase(i) =>
          IF bdl_pos_adj # 0
            THEN /\ last'.ok[i] = 1 /\ i \in last'.notified
                 /\ azx_dev'[i].start_wallclk = WALLCLK
            ELSE last'.ok[i] = 0
    ]_vars

\* C24 as amended: in that case the completion is never accepted and the
\* baseline stays; a nonzero position adjustment rejects it as "not yet"
\* (verdict 0, retried later), a zero adjustment as too early (verdict -1).
C24_BeforeBoundary ==
  [][ \A i \in Streams :
        BeforeBoundaryCase(i) =>
          /\ last'.ok[i] = (IF bdl_pos_adj # 0 THEN 0 ELSE -1)
          /\ i \notin last'.notified
          /\ azx_dev'[i].start_wallclk = azx_dev[i].start_wallclk
          /\ azx_dev'[i].notified = azx_dev[i].notified
    ]_vars

\* with an adjustment set, an interrupt found the playback position beyond
\* the midpoint of the period and deferred the completion
C24_Witness ==
  /\ last.op = "irq" /\ playback_index_offset \in last.evaluated
  /\ bdl_pos_adj # 0
  /\ last.ok[playback_index_offset] = 0
  /\ last.pos[playback_index_offset] % azx_dev[playback_index_offset].period_bytes
       > azx_dev[playback_index_offset].period_bytes \div 2
  /\ playback_index_offset \notin last.notified
  /\ azx_dev[playback_index_offset].irq_pending

\* without an adjustment, the same interrupt was dropped
C24_WitnessZero ==
  /\ last.op = "irq" /\ playback_index_offset \in last.evaluated
  /\ bdl_pos_adj = 0
  /\ last.ok[playback_index_offset] = -1
  /\ last.pos[playback_index_offset] % azx_dev[playback_index_offset].period_bytes
       > azx_dev[playback_index_offset].period_bytes \div 2
  /\ ~azx_dev[playback_index_offset].irq_pending

\* C25: in azx_interrupt a verdict of 0 ("not yet") sets the stream's
\* irq_pending and queues the worker; a verdict of -1 ("too early") leaves
\* every field of the stream alone and queues nothing; and no step other
\* than such a deferral sets irq_pending.
C25_DeferOnlyNotYet ==
  [][ /\ \A i \in Streams :
           /\ (last'.op = "irq" /\ i \in last'.evaluated /\ last'.ok[i] = 0) =>
                /\ azx_dev'[i].irq_pending /\ workq'
                /\ azx_dev'[i] = [azx_dev[i] EXCEPT !.irq_pending = TRUE]
           /\ (last'.op = "irq" /\ i \in last'.evaluated /\ last'.ok[i] = -1) =>
                /\ azx_dev'[i] = azx_dev[i]
                /\ (workq' /\ ~workq) => \E j \in last'.evaluated : last'.ok[j] = 0
           /\ (~azx_dev[i].irq_pending /\ azx_dev'[i].irq_pending) =>
                (last'.op = "irq" /\ i \in last'.evaluated /\ last'.ok[i] = 0)
    ]_vars

\* an interrupt deferred the completion of the playback stream: irq_pending
\* is set and the worker queued, with nothing reported
C25_Witness ==
  /\ last.op = "irq" /\ last.evaluated = {playback_index_offset}
  /\ last.ok[playback_index_offset] = 0 /\ last.notified = {}
  /\ azx_dev[playback_index_offset].irq_pending /\ workq
  /\ azx_dev[playback_index_offset].notified = 0

\* an interrupt came too early and was dropped: no flag set, no worker
C25_WitnessEarly ==
  /\ last.op = "irq" /\ last.evaluated = {playback_index_offset}
  /\ last.ok[playback_index_offset] = -1 /\ last.notified = {}
  /\ ~azx_dev[playback_index_offset].irq_pending /\ ~workq

WorkReturns == last'.op = "work" /\ ~workq'

\* stream i is running for a substream with its completion still deferred
StillDeferred(i) ==
  azx_dev'[i].irq_pending /\ azx_dev'[i].running /\ azx_dev'[i].substream # 0

\* C27 as stated: when azx_irq_pending_work returns, no running stream with
\* a substream has irq_pending set.
C27_Original == [][ WorkReturns => \A i \in Streams : ~StillDeferred(i) ]_vars

\* C27 as amended: when azx_irq_pending_work returns, a running stream with
\* a substream that still has irq_pending set was evaluated in the last pass,
\* and an evaluation of that pass was too early (which resets the count of
\* pending streams and ends the worker).
C27_WorkerReturn ==
  [][ WorkReturns =>
        \A i \in Streams :
          StillDeferred(i) =>
            /\ i \in last'.evaluated /\ last'.ok[i] <= 0
            /\ \E j \in last'.evaluated : last'.ok[j] = -1
    ]_vars

\* the worker found the restarted playback stream too early and returned
\* with the stream running and its irq_pending still set
C27_Witness ==
  /\ last.op = "work" /\ ~workq /\ last.ret = 0
  /\ last.evaluated = {playback_index_offset}
  /\ last.ok[playback_index_offset] = -1
  /\ azx_dev[playback_index_offset].irq_pending
  /\ azx_dev[playback_index_offset].running
  /\ azx_dev[playback_index_offset].substream # 0

\* azx_setup_periods has just programmed the list of the playback stream
Programmed == last.op = "setup_periods" /\ last.ret = 0

\* the adjustment in bytes that azx_setup_periods ends up with
EffectiveAdj(rt, adj) ==
  LET bytes == IF adj > 0 THEN PosAdjBytes(rt, adj) ELSE 0
  IN IF bytes >= rt.period_bytes THEN 0 ELSE bytes

\* C28: for a buffer that is a whole number of periods, the sizes of the
\* entries azx_setup_periods programs add up to the buffer size, with the
\* position adjustment and without it.
C28_TotalBytes ==
  (Programmed /\ azx_dev[last.dev].bufsize % azx_dev[last.dev].period_bytes = 0) =>
    LET d == azx_dev[last.dev]
    IN /\ d.frags = Len(d.bdl)
       /\ BdlBytes(d.bdl, d.frags) = d.bufsize

\* a buffer of three periods in pieces of 4096 bytes was programmed with an
\* adjustment of 256 bytes in front, which moved every later boundary
C28_Witness ==
  /\ Programmed /\ bdl_pos_adj = 64
  /\ azx_dev[last.dev].bufsize = 3 * 8192 /\ azx_dev[last.dev].period_bytes = 8192
  /\ runtime[SNDRV_PCM_STREAM_PLAYBACK].contig = 4096
  /\ runtime[SNDRV_PCM_STREAM_PLAYBACK].rate = 48000
  /\ azx_dev[last.dev].frags = 9
  /\ azx_dev[last.dev].bdl[1].size = 256
  /\ azx_dev[last.dev].bdl[2].size = 4096 - 256
  /\ azx_dev[last.dev].bdl[4].size = 256

\* the buffer offset at which entry k of a list ends
EntryEnd(bdl, k) == bdl[k].addr + bdl[k].size

\* C29 as stated: an entry raises the interrupt on completion exactly when it
\* ends at a period boundary of the buffer, and no entry does when period
\* wakeups are suppressed.
C29_Original ==
  (Programmed /\ azx_dev[last.dev].bufsize % azx_dev[last.dev].period_bytes = 0) =>
    LET d == azx_dev[last.dev]
        rt == runtime[SNDRV_PCM_STREAM_PLAYBACK]
    IN \A k \in 1..d.frags :
         d.bdl[k].ioc <=> (~rt.no_period_wakeup /\ EntryEnd(d.bdl, k) % d.period_bytes = 0)

\* C29 as amended: without a position adjustment an entry raises the
\* interrupt exactly when it ends at a period boundary; with an adjustment
\* of a bytes exactly when it ends a bytes past the start of a period (the
\* short first entry and every full period after it), so the entry that
\* ends the buffer raises none; no entry does when period wakeups are
\* suppressed.
C29_IocEntries ==
  (Programmed /\ azx_dev[last.dev].bufsize % azx_dev[last.dev].period_bytes = 0) =>
    LET d == azx_dev[last.dev]
        rt == runtime[SNDRV_PCM_STREAM_PLAYBACK]
        a == EffectiveAdj(rt, bdl_pos_adj)
    IN \A k \in 1..d.frags :
         d.bdl[k].ioc <=>
           (~rt.no_period_wakeup /\ (EntryEnd(d.bdl, k) - a) % d.period_bytes = 0)

\* with period wakeups on, a buffer of two periods in pieces of 4096 bytes
\* was programmed without adjustment: every second entry ends a period and
\* raises the interrupt
C29_Witness ==
  /\ Programmed /\ bdl_pos_adj = 0
  /\ ~runtime[SNDRV_PCM_STREAM_PLAYBACK].no_period_wakeup
  /\ runtime[SNDRV_PCM_STREAM_PLAYBACK].contig = 4096
  /\ azx_dev[last.dev].bufsize = 2 * 8192 /\ azx_dev[last.dev].period_bytes = 8192
  /\ azx_dev[last.dev].frags = 4
  /\ ~azx_dev[last.dev].bdl[1].ioc /\ azx_dev[last.dev].bdl[2].ioc
  /\ ~azx_dev[last.dev].bdl[3].ioc /\ azx_dev[last.dev].bdl[4].ioc

\* the same buffer with period wakeups suppressed: no entry raises it
C29_WitnessQuiet ==
  /\ Programmed /\ bdl_pos_adj = 0
  /\ runtime[SNDRV_PCM_STREAM_PLAYBACK].no_period_wakeup
  /\ runtime[SNDRV_PCM_STREAM_PLAYBACK].contig = 4096
  /\ azx_dev[last.dev].bufsize = 2 * 8192 /\ azx_dev[last.dev].period_bytes = 8192
  /\ \A k \in 1..azx_dev[last.dev].frags : ~azx_dev[last.dev].bdl[k].ioc

\* the same buffer with an adjustment of 128 bytes: the first entry and the
\* entry 128 bytes into the second period raise the interrupt, the last
\* entry does not
C29_WitnessAdjusted ==
  /\ Programmed /\ bdl_pos_adj = 32
  /\ ~runtime[SNDRV_PCM_STREAM_PLAYBACK].no_period_wakeup
  /\ runtime[SNDRV_PCM_STREAM_PLAYBACK].contig = 4096
  /\ runtime[SNDRV_PCM_STREAM_PLAYBACK].rate = 48000
  /\ azx_dev[last.dev].bufsize = 2 * 8192 /\ azx_dev[last.dev].period_bytes = 8192
  /\ azx_dev[last.dev].bdl[1].size = 128 /\ azx_dev[last.dev].bdl[1].ioc
  /\ EntryEnd(azx_dev[last.dev].bdl, azx_dev[last.dev].frags) = 2 * 8192
  /\ ~azx_dev[last.dev].bdl[azx_dev[last.dev].frags].ioc

\* the position buffer value of a read looks implausible
Implausible(pb) == pb = 0 \/ pb = AllOnes

C6_SyncBeforeRun ==
  [][ \A i \in Streams :
        /\ (~sd[i].run /\ sd'[i].run /\ trig.nsync > 1) =>
             /\ i \in trig.sbits
             /\ trig.sbits \subseteq SSYNC
             /\ trig.sbits \subseteq SSYNC'
        /\ (~sd[i].run /\ sd'[i].run) => trig.pc = "streams" /\ trig.start
        /\ (i \in SSYNC /\ i \notin SSYNC') =>
             /\ trig.pc = "unsync"
             /\ trig.start => \A j \in trig.sbits : sd[j].run
    ]_vars

\* a grouped start has set both run bits with both sync bits still asserted
C6_Witness ==
  /\ trig.pc = "unsync" /\ trig.cmd = "START" /\ trig.nsync = 2
  /\ \A i \in Streams : sd[i].run /\ i \in SSYNC

\* the write that sets the global interrupt enable
EnablesInterrupts ==
  /\ ICH6_INT_GLOBAL_EN \notin INTCTL
  /\ {ICH6_INT_CTRL_EN, ICH6_INT_GLOBAL_EN} \subseteq INTCTL'

\* C30: the global and the controller interrupt enable are set only when
\* the controller has left reset (azx_reset latches codec_mask on that path
\* and on no other), unsolicited responses are accepted and the CORB and
\* RIRB DMAs run if the chip is in ring mode, and the position buffer
\* address is programmed.
C30_EnableLast ==
  [][ EnablesInterrupts =>
        /\ GCTL'.reset
        /\ ~single_cmd' => GCTL'.unsol /\ CORBCTL' /\ RIRBCTL'
        /\ DPLBASE'.base
    ]_vars

\* a bring-up in ring mode has enabled the interrupts and is about to
\* initialize the command rings
C30_Witness ==
  /\ pc = "up_cmd_io"
  /\ ~single_cmd /\ GCTL.reset /\ GCTL.unsol
  /\ {ICH6_INT_CTRL_EN, ICH6_INT_GLOBAL_EN} \subseteq INTCTL
  /\ ~CORBCTL /\ ~RIRBCTL /\ ~DPLBASE.base /\ ~initialized

\* a bring-up in ring mode returned: rings, position buffer and interrupts
C30_WitnessDone ==
  /\ pc = "idle" /\ last.op = "halt" /\ last.ret = 1
  /\ initialized /\ ~single_cmd /\ GCTL.reset /\ GCTL.unsol
  /\ {ICH6_INT_CTRL_EN, ICH6_INT_GLOBAL_EN} \subseteq INTCTL
  /\ CORBCTL /\ RIRBCTL /\ DPLBASE.base

(***************************************************************************)
(* Properties of codec creation (SpecProbe).                               *)
(***************************************************************************)
\* probe_codec returned an error for the address create.c
ProbeFails == pc = "ret" /\ probing /\ ret = AllOnes /\ pc' # pc

\* C31: when the probe of an address fails, its bit is taken out of
\* codec_mask, and the controller is stopped and brought up again (marked
\* initialized, RIRB status cleared, ring pointers and the send count at
\* zero) before the loop goes on; a probe starts only from the idle loop
\* and never for an address that failed before.
C31_ResetBeforeNext ==
  [][ /\ ProbeFails => create.c \notin codec_mask' /\ pc' = "probe_reset"
      /\ (pc = "probe_reset" /\ pc' # pc) =>
           /\ create.c \in create.failed
           /\ initialized' /\ ~RIRBSTS'
           /\ CORBWP' = 0 /\ RIRBWP' = 0 /\ rirb'.rp = 0 /\ nsends' = 0
           /\ create'.c = create.c + 1
      /\ (~probing /\ probing') =>
           /\ pc = "idle"
           /\ create.c \notin create.failed
           /\ \A a \in create.failed : a < create.c
    ]_vars

\* the probe of address 1 is under way after the probe of address 0 failed
\* and the controller was brought up again
C31_Witness ==
  /\ probing /\ pc = "sent" /\ create.c = 1
  /\ create.failed = {0} /\ codec_mask = {1, 2}
  /\ initialized /\ nsends = 1

\* C32: an address whose probe failed is in codec_mask at no later point of
\* codec creation, and snd_hda_codec_new is not called for it.
C32_FailedStaysAbsent ==
  /\ (pc # "probe_reset") => create.failed \cap codec_mask = {}
  /\ create.failed \cap create.tried = {}

\* the only address of the mask failed its probe, the reset read it from
\* STATESTS again and snd_hda_codec_new was called for it
C32_Witness ==
  /\ create.stage = "done"
  /\ create.failed = {1} /\ create.tried = {1} /\ codec_mask = {1}

(***************************************************************************)
(* Properties of suspend (SpecSuspend).                                    *)
(***************************************************************************)
\* azx_suspend calls azx_stop_chip
SuspendStops == pc = "suspend_pcm" /\ pc' = "idle"

\* C33: when azx_suspend calls azx_stop_chip no stream runs and no stream
\* has irq_pending set.
C33_QuietAtStop ==
  [][ SuspendStops =>
        \A i \in Streams : ~azx_dev[i].running /\ ~azx_dev[i].irq_pending
    ]_vars

\* azx_suspend is about to stop the controller: the flags were cleared and
\* both streams are stopped, but an interrupt between the two steps found
\* the playback stream's position not yet due and set its flag again
C33_Witness ==
  /\ pc = "suspend_pcm" /\ trig.pc = "idle"
  /\ \A s \in Directions : runtime[s].state = "suspended"
  /\ \A i \in Streams : ~azx_dev[i].running
  /\ azx_dev[playback_index_offset].irq_pending

(***************************************************************************)
(* Properties of the single-command channel (SpecSingle).                  *)
(***************************************************************************)
\* azx_send_cmd in single-command mode
SingleSends == single_cmd /\ pc = "idle" /\ pc' = "sent"

\* the busy bit was set and the hardware did not drop it within the reads
BusyExhausted == IRS.busy /\ polls'.hwfree > SINGLE_TIMEOUT

\* C34: a single-command send reads IRS at most 50 times in each of its two
\* waits.  If the busy bit does not drop within the 50 reads it returns
\* -EIO and writes nothing; if the valid bit does not show within the 50
\* reads it returns -EIO and stores all-ones as the response of the address;
\* otherwise it returns 0 at the read where the valid bit showed.  It never
\* changes the pending counters.
C34_SingleBounded ==
  [][ SingleSends =>
        /\ polls'.busy <= SINGLE_TIMEOUT /\ polls'.valid <= SINGLE_TIMEOUT
        /\ rirb'.cmds = rirb.cmds
        /\ BusyExhausted =>
             /\ err' = -EIO /\ polls'.busy = SINGLE_TIMEOUT /\ polls'.valid = 0
             /\ IC' = IC /\ IRS' = IRS /\ rirb' = rirb
        /\ (~BusyExhausted /\ polls'.hwdone > SINGLE_TIMEOUT) =>
             /\ err' = -EIO /\ polls'.valid = SINGLE_TIMEOUT
             /\ rirb'.res[azx_command_addr(val')] = AllOnes
        /\ (~BusyExhausted /\ polls'.hwdone <= SINGLE_TIMEOUT) =>
             /\ err' = 0 /\ polls'.valid = polls'.hwdone
             /\ rirb'.res[azx_command_addr(val')] = CodecReply(val')
    ]_vars

\* the send gave up after 50 reads with the busy bit set
C34_Witness ==
  /\ single_cmd /\ pc = "sent" /\ err = -EIO
  /\ polls.busy = SINGLE_TIMEOUT /\ polls.valid = 0 /\ polls.hwfree > SINGLE_TIMEOUT

\* the send went out at once and the wait gave up after 50 reads
C34_WitnessValid ==
  /\ single_cmd /\ pc = "sent" /\ err = -EIO
  /\ polls.busy = 1 /\ polls.valid = SINGLE_TIMEOUT
  /\ rirb.res[azx_command_addr(val)] = AllOnes

(***************************************************************************)
(* Properties of single-command mode across restarts (SpecCycle).          *)
(***************************************************************************)
\* C35: in single-command mode the CORB and RIRB DMAs stay off and
\* unsolicited responses stay refused, whatever shuts the controller down
\* and brings it up again, and the mode is not left.
C35_RingStaysOff ==
  /\ [](single_cmd => ~CORBCTL /\ ~RIRBCTL /\ ~GCTL.unsol)
  /\ [][single_cmd => single_cmd']_vars

\* a controller that fell back to single-command mode was powered down and
\* brought up again by the power notifier, with a reset that completed
C35_Witness ==
  /\ single_cmd /\ polling_mode
  /\ last.op = "power_up" /\ last.ret = 0
  /\ initialized /\ GCTL.reset /\ ~GCTL.unsol /\ ~CORBCTL /\ ~RIRBCTL

(***************************************************************************)
(* A second prepare after one that failed on the length of the list.       *)
(***************************************************************************)
\* the descriptor list of a stream covers its buffer
ListComplete(dev) == BdlBytes(dev.bdl, dev.frags) = dev.bufsize

\* C37: a prepare that programs the controller (last valid index, list
\* base) programs it from a descriptor list that covers the buffer, also
\* when an earlier prepare with the same sizes and format failed on the
\* number of entries: the list is built again, the one the failed call left
\* is never used.
C37_RebuiltAfterOverflow ==
  [][ \A s \in Directions :
        PrepareStep(s) /\ sd'[runtime[s].dev].bdlp =>
          /\ ListComplete(azx_dev'[runtime[s].dev])
          /\ sd'[runtime[s].dev].cbl =
               BdlBytes(azx_dev'[runtime[s].dev].bdl, sd'[runtime[s].dev].lvi + 1)
    ]_vars

\* the second prepare of a 2 MiB buffer scattered over 512 pages returned 0
\* and programmed the controller with the 256 entries of the failed one
C37_Witness ==
  /\ last.op = "prepare" /\ last.ret = 0
  /\ azx_dev[last.dev].bufsize = 2097152
  /\ azx_dev[last.dev].frags = AZX_MAX_BDL_ENTRIES
  /\ ~ListComplete(azx_dev[last.dev])
  /\ sd[last.dev].bdlp /\ sd[last.dev].lvi = AZX_MAX_BDL_ENTRIES - 1
  /\ sd[last.dev].cbl = 2097152

(***************************************************************************)
(* azx_interrupt and azx_irq_pending_work between their lock operations,   *)
(* beside trigger, hw_free and close of the substreams.                    *)
(***************************************************************************)
\* the loop of azx_interrupt from stream i up to the spin_unlock of line
\* 1454 or to its end; st.at: the stream the lock was dropped for, or
\* num_streams; status: the INTSTS bits read at line 1436
RECURSIVE IrqSegment(_, _, _, _)
IrqSegment(st, i, rd, status) ==
  IF i >= num_streams
    THEN [st EXCEPT !.at = num_streams]
    ELSE IF i \notin status
      THEN IrqSegment(st, i + 1, rd, status)
      ELSE LET st1 == [st EXCEPT !.sd[i].sts = FALSE, !.sd[i].err = FALSE]
           IN IF SkipStream(st.devs[i], st.sd[i].sts)
                THEN IrqSegment(st1, i + 1, rd, status)
                ELSE LET p == azx_position_ok(st.devs, st.fix, i, rd[i])
                         st2 == [st1 EXCEPT !.fix = p.fix]
                     IN IF p.ok = 1
                          THEN [st2 EXCEPT
                                  !.devs = [p.devs EXCEPT ![i].irq_pending = FALSE],
                                  !.at = i]
                          ELSE IrqSegment(
                                 IF Deferrable(p.ok)
                                   THEN [st2 EXCEPT !.devs[i].irq_pending = TRUE,
                                                    !.workq = TRUE]
                                   ELSE st2,
                                 i + 1, rd, status)

\* azx_interrupt from stream i on, with reg_lock held, up to the next
\* spin_unlock: the one before a report, or the one of line 1482
IrqRun(i, status) ==
  /\ ~RegLocked
  /\ \E rd \in [{k \in Streams : azx_dev[k].running} -> DmaReports] :
       LET st == IrqSegment([devs |-> azx_dev, fix |-> position_fix, sd |-> sd,
                             workq |-> workq, at |-> 0], i, rd, status)
           done == st.at >= num_streams
       IN /\ azx_dev' = st.devs
          /\ position_fix' = st.fix
          /\ sd' = st.sd
          /\ workq' = st.workq
          /\ notify' = [notify EXCEPT
                          !["irq"].pc = IF done THEN "idle" ELSE "call",
                          !["irq"].dev = IF done THEN 0 ELSE st.at,
                          !["irq"].status = IF done THEN {} ELSE status]
          /\ rirb' = IF done /\ RIRBSTS THEN azx_update_rirb(rirb, RIRBWP) ELSE rirb
          /\ RIRBSTS' = (~done /\ RIRBSTS)
          /\ last' = Op("irq", IF done THEN -1 ELSE st.at, 0)
  /\ UNCHANGED << CORBWP, CORBRP, CORBCTL, RIRBWP, RIRBCTL, GCTL, IRS, IC, polls,
                  IR, corb, last_cmd, single_cmd, polling_mode, poll_count, msi,
                  probing, create, initialized, codec_mask, STATESTS, bus, pc,
                  val, do_poll, err, ret, rounds, entry, nsends, ncmds >>
  /\ UNCHANGED << INTCTL, SSYNC, WALLCLK, DPLBASE, bdl_pos_adj, driver_caps,
                  irq_pending_warned, runtime, linked, trig, nops, nticks >>

\* lines 1434-1440: the interrupt is taken and INTSTS read
IrqEnter ==
  /\ notify["irq"].pc = "idle"
  /\ ~(~RIRBSTS /\ \A i \in Streams : ~IntSts(i))
  /\ IrqRun(0, {i \in Streams : IntSts(i)})

\* lines 1455 and 2346: snd_pcm_period_elapsed(azx_dev->substream), the
\* field read with reg_lock released
NotifyCall(h) ==
  /\ notify[h].pc = "call"
  /\ notify' = [notify EXCEPT ![h].pc = "relock",
                              ![h].read = azx_dev[notify[h].dev].substream]
  /\ azx_dev' = [azx_dev EXCEPT ![notify[h].dev].notified =
                                  IF azx_dev[notify[h].dev].substream # 0
                                    THEN @ + 1
                                    ELSE @]
  /\ last' = Op(h \o "_call", notify[h].dev, 0)
  /\ UNCHANGED << sd, INTCTL, SSYNC, WALLCLK, DPLBASE, position_fix, bdl_pos_adj,
                  driver_caps, irq_pending_warned, workq, runtime, trig, nops,
                  nticks >>
  /\ UNCHANGED << cmdVars, linked >>

\* line 1456: spin_lock, and the loop goes on
IrqResume ==
  /\ notify["irq"].pc = "relock"
  /\ IrqRun(notify["irq"].dev + 1, notify["irq"].status)

\* one pass of the loop of azx_irq_pending_work from stream i up to the
\* spin_unlock of line 2345 or to the end of the pass
RECURSIVE WorkSegment(_, _, _)
WorkSegment(st, i, rd) ==
  IF i >= num_streams
    THEN [st EXCEPT !.at = num_streams]
    ELSE IF ~st.devs[i].irq_pending \/ st.devs[i].substream = 0 \/ ~st.devs[i].running
      THEN WorkSegment(st, i + 1, rd)
      ELSE LET p == azx_position_ok(st.devs, st.fix, i, rd[i])
               st2 == [st EXCEPT !.fix = p.fix]
           IN IF p.ok > 0
                THEN [st2 EXCEPT !.devs = [p.devs EXCEPT ![i].irq_pending = FALSE],
                                 !.at = i]
                ELSE WorkSegment(
                       IF p.ok < 0
                         THEN [st2 EXCEPT !.pending = 0]
                         ELSE [st2 EXCEPT !.pending = @ + 1],
                       i + 1, rd)

\* the worker from stream i on, with reg_lock held, up to the next unlock
WorkRun(i, pending) ==
  /\ ~RegLocked
  /\ \E rd \in [{k \in Streams : azx_dev[k].running} -> DmaReports] :
       LET st == WorkSegment([devs |-> azx_dev, fix |-> position_fix,
                              pending |-> pending, at |-> 0], i, rd)
           done == st.at >= num_streams
       IN /\ azx_dev' = st.devs
          /\ position_fix' = st.fix
          /\ workq' = IF done THEN WorkAgain(st.pending) ELSE workq
          /\ notify' = [notify EXCEPT
                          !["work"].pc = IF done THEN "idle" ELSE "call",
                          !["work"].dev = IF done THEN 0 ELSE st.at,
                          !["work"].pending = IF done THEN 0 ELSE st.pending]
          /\ last' = Op("work", IF done THEN -1 ELSE st.at, st.pending)
  /\ irq_pending_warned' = TRUE
  /\ UNCHANGED << sd, INTCTL, SSYNC, WALLCLK, DPLBASE, bdl_pos_adj, driver_caps,
                  runtime, trig, nops, nticks >>
  /\ UNCHANGED << cmdVars, linked >>

\* lines 2325-2335: the queued work starts a pass
WorkEnter ==
  /\ workq
  /\ notify["work"].pc = "idle"
  /\ WorkRun(0, 0)

\* line 2347: spin_lock, and the pass goes on
WorkResume ==
  /\ notify["work"].pc = "relock"
  /\ WorkRun(notify["work"].dev + 1, notify["work"].pending)

NextRace ==
  \/ IrqEnter
  \/ IrqResume
  \/ WorkEnter
  \/ WorkResume
  \/ \E h \in Handlers : NotifyCall(h)
  \/ \E i \in Streams : HwDma(i)
  \/ Tick
  \/ \E s \in Directions : TrigEnter("STOP", {s})
  \/ TrigSync
  \/ TrigStream
  \/ TrigWait
  \/ \E s \in Directions : AzxPcmHwFree(s)
  \/ \E s \in Directions : AzxPcmClose(s)

SpecRace == InitFatal /\ [][NextRace]_vars

\* C38: whenever azx_interrupt or the worker has called
\* snd_pcm_period_elapsed, the azx_dev->substream it read after it released
\* reg_lock was a substream, not the NULL a close had stored meanwhile.
C38_BoundWhenNotified ==
  \A h \in Handlers : notify[h].pc = "relock" => notify[h].read # 0

\* the interrupt handler accepted the period of a stream, the substream
\* was stopped, freed and closed, and the handler then made its call with
\* the cleared field
C38_Witness ==
  /\ notify["irq"].pc = "relock" /\ notify["irq"].read = 0
  /\ last.op = "irq_call"
  /\ \E s \in Directions : runtime[s].state = "closed"
  /\ ~azx_dev[notify["irq"].dev].opened

\* the same in the worker
C38_WitnessWork ==
  /\ notify["work"].pc = "relock" /\ notify["work"].read = 0
  /\ last.op = "work_call"
  /\ ~azx_dev[notify["work"].dev].opened

(***************************************************************************)
(* azx_get_position in every mode of position_fix, on streams that are     *)
(* prepared or run.                                                        *)
(***************************************************************************)
PositionFixModes ==
  {POS_FIX_AUTO, POS_FIX_LPIB, POS_FIX_POSBUF, POS_FIX_VIACOMBO, POS_FIX_COMBO}

\* the readings of SD_LPIB and of the position buffer: inside the buffer,
\* at its end, beyond it, 0 and (the position buffer) all ones
LpibReadings == {0, 100, 14000, 32768, 40000}
PosbufReadings == {0, 14000, 32768, 69536, AllOnes}
\* the FIFO size a VIA controller reports
FifoSizes == {0, 192}

InitPos ==
  /\ CmdInit(0, FALSE, FALSE)
  /\ \E fix \in PositionFixModes : PcmInit(U32(0), fix, 1, TRUE, FALSE)

\* a call of azx_get_position for the stream of substream s: from
\* azx_pcm_pointer (with_check false) or from azx_position_ok (true)
AzxGetPosition(s, with_check) ==
  /\ runtime[s].state \in {"prepared", "running"}
  /\ ~RegLocked
  /\ \E lpib \in LpibReadings, pb \in PosbufReadings, fifo_size \in FifoSizes :
       LET i == runtime[s].dev
           g == GetPosition(position_fix, s, azx_dev[i], pb, lpib, fifo_size,
                            with_check)
       IN /\ position_fix' = g.fix
          /\ azx_dev' = [azx_dev EXCEPT ![i].insufficient = g.insufficient]
          /\ last' = [Op("position", i, g.pos) EXCEPT !.pos[i] = g.raw,
                                                     !.fix = position_fix]
  /\ UNCHANGED << sd, INTCTL, SSYNC, WALLCLK, DPLBASE, bdl_pos_adj, driver_caps,
                  irq_pending_warned, workq, runtime, notify, trig, nops,
                  nticks >>
  /\ UNCHANGED << cmdVars, linked >>

NextPos ==
  \/ \E s \in Directions, with_check \in BOOLEAN : AzxGetPosition(s, with_check)
  \/ \E s \in Directions : TrigEnter("START", {s})
  \/ TrigSync
  \/ TrigStream

SpecPos == InitPos /\ [][NextPos]_vars

\* C39: azx_get_position returns a position p with 0 <= p < bufsize for a
\* configured stream, whatever position_fix is, and returns 0 whenever the
\* position it read or computed is at or beyond bufsize.
C39_PositionInBuffer ==
  last.op = "position" =>
    /\ azx_dev[last.dev].bufsize > 0
    /\ last.ret >= 0 /\ last.ret < azx_dev[last.dev].bufsize
    /\ U32Ge(last.pos[last.dev], azx_dev[last.dev].bufsize) => last.ret = 0
    /\ ~U32Ge(last.pos[last.dev], azx_dev[last.dev].bufsize) =>
         last.ret = last.pos[last.dev]

\* the VIA computation for a capture stream gave a position beyond the
\* buffer, and 0 was returned
C39_Witness ==
  /\ last.op = "position" /\ last.ret = 0
  /\ last.fix[SNDRV_PCM_STREAM_CAPTURE] = POS_FIX_VIACOMBO
  /\ StreamDir(last.dev) = SNDRV_PCM_STREAM_CAPTURE
  /\ last.pos[last.dev] >= azx_dev[last.dev].bufsize

\* the position buffer held all ones in mode POSBUF, and 0 was returned
C39_WitnessAllOnes ==
  /\ last.op = "position" /\ last.ret = 0
  /\ last.fix[StreamDir(last.dev)] = POS_FIX_POSBUF
  /\ last.pos[last.dev] = AllOnes

\* a position inside the buffer is returned as read, in LPIB mode
C39_WitnessInside ==
  /\ last.op = "position" /\ last.ret = 14000
  /\ last.fix[StreamDir(last.dev)] = POS_FIX_LPIB

(***************************************************************************)
(* The elapsed ticks of azx_position_ok across the wrap of the wall clock. *)
(***************************************************************************)
\* the ticks that really passed since the baseline of stream i: the ticks
\* of the run, less those at which the baseline lies (one period before
\* the start for a stream that was released from pause)
TrueElapsed(i) == TickSum(nticks) - azx_dev[i].base

\* the verdict of azx_position_ok for that many ticks and a position
Verdict(i, ticks, pos) ==
  IF ticks < (azx_dev[i].period_wallclk * 2) \div 3
    THEN -1
    ELSE IF /\ ticks < (azx_dev[i].period_wallclk * 5) \div 4
            /\ pos % azx_dev[i].period_bytes > azx_dev[i].period_bytes \div 2
      THEN BeforeBoundary(bdl_pos_adj)
      ELSE 1

\* C40: the elapsed ticks azx_position_ok computes for a running stream,
\* WALLCLK - start_wallclk modulo 2^32, are the ticks that really passed
\* since the baseline, also when the 32-bit counter wrapped in between and
\* when the baseline was set one period before the current tick; so the
\* verdict (too early, not yet, accept) is the one for the true ticks.
C40_ElapsedModular ==
  /\ [](\A i \in Streams :
          azx_dev[i].running => Elapsed(i) = U32(TrueElapsed(i)))
  /\ [][ \A i \in Streams :
           Evaluated(i) =>
             last'.ok[i] = Verdict(i, TrueElapsed(i), last'.pos[i]) ]_vars

\* a stream started before the wall clock wrapped was evaluated after the
\* wrap and deferred: its baseline lies before the wrap, the clock after
C40_Witness ==
  /\ last.op = "irq"
  /\ \E i \in last.evaluated :
       /\ last.ok[i] = 0
       /\ azx_dev[i].start_wallclk.hi >= Half - 8
       /\ WALLCLK.hi < 16
       /\ azx_dev[i].base = 0

\* a stream released from pause less than a period after the clock's zero
\* was evaluated: its baseline wrapped below zero
C40_WitnessRelease ==
  /\ last.op = "irq"
  /\ \E i \in last.evaluated :
       /\ azx_dev[i].base < 0
       /\ azx_dev[i].start_wallclk.hi >= Half - 16
       /\ WALLCLK.hi < 16

\* an evaluation after the wrap accepted the period
C40_WitnessAccept ==
  /\ last.op = "irq"
  /\ \E i \in last.notified :
       /\ azx_dev[i].start_wallclk = WALLCLK
       /\ WALLCLK.hi < 16
       /\ azx_dev[i].base > 0
       /\ U32Lt(WALLCLK, U32(TickSum(nticks)))

====
